---- MODULE Spec2Model ----
(***************************************************************************)
(* ITSM analytics dashboard: the data-access and aggregation core.         *)
(*                                                                         *)
(* The model follows the JavaScript sources: the three services (incident, *)
(* change, SLA) with their fetch-or-fallback accessors and synthetic       *)
(* record generators, and the tabs that combine accessor results into      *)
(* metrics.  JavaScript values are tagged records so that a string, a      *)
(* boolean, an absent field and a {display_value, value} pair stay         *)
(* distinct, as they are at run time.                                      *)
(*                                                                         *)
(* Time is counted in whole hours (the model's clock tick); Date values    *)
(* are truncated to the tick as JavaScript truncates them to the           *)
(* millisecond.  A draw of Math.random() is the rational k / RandDen with  *)
(* k in 0 .. RandDen-1.                                                    *)
(***************************************************************************)
EXTENDS Integers, Sequences, FiniteSets, TLC

VARIABLES
    calls,      \* the accessor calls in flight, by call id
    ov,         \* the Overview tab: its load, the batch of four calls, metrics
    mt,         \* the MTTR computations of the three tabs on one resolved list
    qry,        \* the encoded query an accessor builds from the filters
    tr,         \* the Trends tab: a series and its trend classification
    ct,         \* the Changes tab: its change list and the metrics rendered from it
    tab,        \* a tab's load and what it renders afterwards (metrics or error state)
    fn,         \* a statistics helper applied to a list of values
    ui,         \* the dashboard: the loads in flight, the shared loading flag, each tab's data
    sl,         \* the SLA tab: its load and the slaData it stores
    gen         \* a synthetic-data generator: the records pushed so far

vars == <<calls, ov, mt, qry, tr, ct, tab, fn, ui, sl, gen>>

\* the variables of the tab-level computations
tabVars == <<qry, tr, ct, tab, fn, ui, sl, gen>>

(***************************************************************************)
(* Bounds of the model.                                                    *)
(***************************************************************************)
MaxRemoteLen == 2       \* longest remote result list enumerated record by record
RandDen == 20           \* resolution of the random source: draws are k / RandDen
MaxSeedStart == 1       \* random streams start at 0 .. MaxSeedStart
MaxSeedStep == 3        \* and advance by 0 .. MaxSeedStep per draw (mod RandDen)
Now == 3000             \* the instant of "new Date()", in hours
MaxFilterLimit == 1000  \* the record caps enumerated: those up to this one, and none

(***************************************************************************)
(* Program constants.                                                      *)
(***************************************************************************)
DefaultRecordLimit == 2000
LegacyChangeLimit == 500
MockIncidentCount == 35
MockResolvedCount == 25
MockChangeCount == 25
MockSLACount == 50
MockWindowHours == 2880          \* 120 * 24 h, the synthetic creation window
MockResolveHours == 72           \* the synthetic resolution offset window

(***************************************************************************)
(* JavaScript values.                                                      *)
(***************************************************************************)
Undefined == [t |-> "undefined"]
Null == [t |-> "null"]
Str(s) == [t |-> "string", s |-> s]
Bool(b) == [t |-> "boolean", b |-> b]
\* the string Date.prototype.toISOString() yields for the instant h
IsoStr(h) == [t |-> "string", iso |-> h]
\* a string that Date cannot parse
GarbageDate == [t |-> "string", s |-> "not-a-date"]
\* the number num / den, and the string Number.prototype.toString() yields for it
Num(num, den) == [t |-> "number", num |-> num, den |-> den]
NumStr(num, den) == [t |-> "string", num |-> num, den |-> den]
\* an identifier such as `mock_${i}`
IdStr(prefix, i) == [t |-> "string", prefix |-> prefix, i |-> i]
Pair(d, v) == [t |-> "object", display_value |-> d, value |-> v]

\* ToBoolean
Truthy(v) ==
    CASE v.t = "undefined" -> FALSE
      [] v.t = "null" -> FALSE
      [] v.t = "boolean" -> v.b
      [] v.t = "string" -> v # Str("")
      [] v.t = "number" -> v.num # 0
      [] OTHER -> TRUE

\* a || b
JsOr(a, b) == IF Truthy(a) THEN a ELSE b

\* x?.display_value and x?.value: a primitive has no such property
OptDisplayValue(x) == IF x.t = "object" THEN x.display_value ELSE Undefined
OptValue(x) == IF x.t = "object" THEN x.value ELSE Undefined

display(field) ==
    IF field.t = "string" THEN field ELSE JsOr(OptDisplayValue(field), Str(""))

value(field) ==
    IF field.t = "string" THEN field ELSE JsOr(OptValue(field), Str(""))

DigitStr(n) ==
    CASE n = 0 -> Str("0") [] n = 1 -> Str("1") [] n = 2 -> Str("2")
      [] n = 3 -> Str("3") [] n = 4 -> Str("4") [] OTHER -> Str("?")

(***************************************************************************)
(* The random source.  A stream is fixed by its seed; draw k of the stream *)
(* is Rand(seed, k) / RandDen, a value of [0, 1).                          *)
(***************************************************************************)
RandSeeds == [start : 0..MaxSeedStart, step : 0..MaxSeedStep]

Rand(seed, k) == (seed.start + seed.step * k) % RandDen

\* Math.floor(r * n) and Math.ceil(r * n) for the draw r = k / RandDen
FloorMul(k, n) == (k * n) \div RandDen
CeilMul(k, n) == (k * n + RandDen - 1) \div RandDen
\* r > p / 100
RandAbove(k, p) == k * 100 > p * RandDen
\* new Date(base - r * window) and new Date(base + r * window), truncated to the tick
DateBefore(base, k, window) == (base * RandDen - k * window) \div RandDen
DateAfter(base, k, window) == (base * RandDen + k * window) \div RandDen

Pick(seq, idx) == seq[idx + 1]

(***************************************************************************)
(* Synthetic record generators.                                            *)
(***************************************************************************)
IncidentCategoryLabels == <<"Hardware", "Software", "Network", "Database">>
IncidentCategoryValues == <<"hardware", "software", "network", "database">>
AssigneeLabels == <<"John Doe", "Jane Smith", "Bob Johnson">>

\* IncidentService.getMockIncidents: eight draws per record, in source order
getMockIncidents(seed) ==
    [n \in 1..MockIncidentCount |->
        LET i == n - 1
            d(j) == Rand(seed, 8 * i + j)
            createdDate == DateBefore(Now, d(1), MockWindowHours)
            priority == CeilMul(d(2), 4)
        IN [ origin |-> "mock",
             sys_id |-> Pair(IdStr("mock_", i), IdStr("mock_", i)),
             priority |-> Pair(DigitStr(priority), DigitStr(priority)),
             state |-> Pair(IF RandAbove(d(3), 30) THEN Str("2") ELSE Str("6"),
                            IF RandAbove(d(4), 30) THEN Str("2") ELSE Str("6")),
             category |-> Pair(Str(Pick(IncidentCategoryLabels, FloorMul(d(5), 4))),
                               Str(Pick(IncidentCategoryValues, FloorMul(d(6), 4)))),
             assigned_to |-> Pair(Str(Pick(AssigneeLabels, FloorMul(d(7), 3))),
                                  IdStr("user_", FloorMul(d(8), 3))),
             sys_created_on |-> Pair(IsoStr(createdDate), IsoStr(createdDate)),
             resolved_at |-> Undefined ]]

ResolvedCategoryLabels == <<"Hardware", "Software", "Network">>
ResolvedCategoryValues == <<"hardware", "software", "network">>

\* IncidentService.getMockResolvedIncidents: six draws per record
getMockResolvedIncidents(seed) ==
    [n \in 1..MockResolvedCount |->
        LET i == n - 1
            d(j) == Rand(seed, 6 * i + j)
            createdDate == DateBefore(Now, d(1), MockWindowHours)
            resolvedDate == DateAfter(createdDate, d(2), MockResolveHours)
        IN [ origin |-> "mock",
             sys_id |-> Pair(IdStr("resolved_", i), IdStr("resolved_", i)),
             priority |-> Pair(DigitStr(CeilMul(d(3), 4)), DigitStr(CeilMul(d(4), 4))),
             state |-> Undefined,
             category |-> Pair(Str(Pick(ResolvedCategoryLabels, FloorMul(d(5), 3))),
                               Str(Pick(ResolvedCategoryValues, FloorMul(d(6), 3)))),
             assigned_to |-> Undefined,
             sys_created_on |-> Pair(IsoStr(createdDate), IsoStr(createdDate)),
             resolved_at |-> Pair(IsoStr(resolvedDate), IsoStr(resolvedDate)) ]]

ChangeStates ==
    << [name |-> "New", value |-> "1"], [name |-> "Assess", value |-> "2"],
       [name |-> "Scheduled", value |-> "3"], [name |-> "Completed", value |-> "4"],
       [name |-> "Failed", value |-> "-1"] >>
ChangeTypeLabels == <<"Standard", "Normal", "Emergency">>
ChangeTypeValues == <<"standard", "normal", "emergency">>
ChangeAssigneeLabels == <<"Alice Johnson", "Bob Wilson", "Carol Davis">>

\* ChangeService.getMockChanges: six draws per record
getMockChanges(seed) ==
    [n \in 1..MockChangeCount |->
        LET i == n - 1
            d(j) == Rand(seed, 6 * i + j)
            createdDate == DateBefore(Now, d(1), MockWindowHours)
            randomState == Pick(ChangeStates, FloorMul(d(2), Len(ChangeStates)))
        IN [ origin |-> "mock",
             sys_id |-> Pair(IdStr("change_", i), IdStr("change_", i)),
             state |-> Pair(Str(randomState.name), Str(randomState.value)),
             type |-> Pair(Str(Pick(ChangeTypeLabels, FloorMul(d(3), 3))),
                           Str(Pick(ChangeTypeValues, FloorMul(d(4), 3)))),
             assigned_to |-> Pair(Str(Pick(ChangeAssigneeLabels, FloorMul(d(5), 3))),
                                  IdStr("user_", FloorMul(d(6), 3))),
             sys_created_on |-> Pair(IsoStr(createdDate), IsoStr(createdDate)) ]]

\* SLAService.getMockSLAData: four draws per record (the conditional operator
\* evaluates one branch, so each of percentage's two fields costs one draw)
getMockSLAData(seed) ==
    [n \in 1..MockSLACount |->
        LET i == n - 1
            d(j) == Rand(seed, 4 * i + j)
            createdDate == DateBefore(Now, d(1), MockWindowHours)
            breached == RandAbove(d(2), 85)
            pct(k) == IF breached THEN k * 30 + 100 * RandDen ELSE k * 30 + 70 * RandDen
        IN [ origin |-> "mock",
             sys_id |-> Pair(IdStr("sla_", i), IdStr("sla_", i)),
             task |-> Pair(IdStr("INC000", 4000 + i), IdStr("task_", i)),
             sla |-> Pair(Str(IF i % 2 = 0 THEN "Response Time" ELSE "Resolution Time"),
                          IdStr("sla_def_", i % 2)),
             stage |-> Pair(Str(IF breached THEN "Breached" ELSE "Completed"),
                            Str(IF breached THEN "breached" ELSE "completed")),
             has_breached |-> Pair(Str(IF breached THEN "true" ELSE "false"), Bool(breached)),
             percentage |-> Pair(NumStr(pct(d(3)), RandDen), Num(pct(d(4)), RandDen)),
             sys_created_on |-> Pair(IsoStr(createdDate), IsoStr(createdDate)) ]]

(***************************************************************************)
(* Filters.  recordLimit is 0 when the filter carries none; the filter     *)
(* panel offers the five values of recordLimitOptions.                     *)
(***************************************************************************)
RecordLimitOptions == {500, 1000, 2000, 5000, 10000}
Filters == [recordLimit : {0} \cup {l \in RecordLimitOptions : l <= MaxFilterLimit}]

\* filters.recordLimit || 2000
RecordCap(filters) == IF filters.recordLimit # 0 THEN filters.recordLimit ELSE DefaultRecordLimit

(***************************************************************************)
(* The remote side: what a fetch can come back with.                       *)
(***************************************************************************)
RemoteIncident(priority, state, created) ==
    [ origin |-> "api", sys_id |-> Pair(IdStr("inc_", created), IdStr("inc_", created)),
      priority |-> priority, state |-> state,
      category |-> Pair(Str("Network"), Str("network")),
      assigned_to |-> Pair(Str("Jane Smith"), IdStr("user_", 1)),
      sys_created_on |-> Pair(IsoStr(created), IsoStr(created)),
      resolved_at |-> Undefined ]

RemoteIncidents ==
    { RemoteIncident(Pair(Str("1"), Str("1")), Pair(Str("2"), Str("2")), 2900),
      RemoteIncident(Str("3"), Pair(Str("6"), Str("6")), 2950),
      RemoteIncident(Null, Pair(Str("2"), Str("2")), 2990),
      RemoteIncident(Pair(Str("5"), Str("5")), Pair(Str("2"), Str("2")), 2995) }

RemoteResolved(created, resolved) ==
    [ origin |-> "api", sys_id |-> Pair(IdStr("res_", 0), IdStr("res_", 0)),
      priority |-> Pair(Str("2"), Str("2")), state |-> Undefined,
      category |-> Pair(Str("Software"), Str("software")),
      assigned_to |-> Undefined,
      sys_created_on |-> created, resolved_at |-> resolved ]

\* a valid pair, resolved = created, resolved before created, no resolved_at,
\* an empty created timestamp, an unparseable resolved timestamp
RemoteResolvedIncidents ==
    { RemoteResolved(Pair(IsoStr(2900), IsoStr(2900)), Pair(IsoStr(2910), IsoStr(2910))),
      RemoteResolved(Pair(IsoStr(2900), IsoStr(2900)), Pair(IsoStr(2900), IsoStr(2900))),
      RemoteResolved(Pair(IsoStr(2910), IsoStr(2910)), Pair(IsoStr(2900), IsoStr(2900))),
      RemoteResolved(IsoStr(2900), Undefined),
      RemoteResolved(Pair(Str(""), Str("")), IsoStr(2905)),
      RemoteResolved(IsoStr(2900), GarbageDate) }

RemoteChange(state, created) ==
    [ origin |-> "api", sys_id |-> Pair(IdStr("chg_", created), IdStr("chg_", created)),
      state |-> state, type |-> Pair(Str("Normal"), Str("normal")),
      assigned_to |-> Pair(Str("Bob Wilson"), IdStr("user_", 1)),
      sys_created_on |-> Pair(IsoStr(created), IsoStr(created)) ]

RemoteChanges ==
    { RemoteChange(Pair(Str("Closed"), Str("3")), 2900),
      RemoteChange(Pair(Str("Completed"), Str("4")), 2910),
      RemoteChange(Pair(Str("Failed"), Str("-1")), 2920),
      RemoteChange(Undefined, 2930) }

RemoteSLA(has_breached, created) ==
    [ origin |-> "api", sys_id |-> Pair(IdStr("tsla_", created), IdStr("tsla_", created)),
      task |-> Pair(IdStr("INC", created), IdStr("task_", created)),
      sla |-> Pair(Str("Response Time"), IdStr("sla_def_", 0)),
      stage |-> Pair(Str("In progress"), Str("in_progress")),
      has_breached |-> has_breached,
      percentage |-> Pair(NumStr(50, 1), NumStr(50, 1)),
      sys_created_on |-> Pair(IsoStr(created), IsoStr(created)) ]

RemoteSLAs ==
    { RemoteSLA(Pair(Str("true"), Str("true")), 2900),
      RemoteSLA(Pair(Str("false"), Str("false")), 2910),
      RemoteSLA(Str("true"), 2920) }

BaseOps == {"getOpenIncidents", "getResolvedIncidents", "getChanges", "getSLAPerformance"}

RemoteRecords(baseOp) ==
    CASE baseOp = "getOpenIncidents" -> RemoteIncidents
      [] baseOp = "getResolvedIncidents" -> RemoteResolvedIncidents
      [] baseOp = "getChanges" -> RemoteChanges
      [] baseOp = "getSLAPerformance" -> RemoteSLAs

SeqsUpTo(S, n) == UNION { [1..k -> S] : k \in 0..n }

\* a remote that does not honour sysparm_limit: limit + 1 copies of one record
OverLimitBody(baseOp, limit) ==
    [i \in 1..(limit + 1) |-> CHOOSE r \in RemoteRecords(baseOp) : TRUE]

FailureKinds == {"http_error", "transport_error", "decode_error"}

\* the outcomes of one fetch: a 2xx response whose JSON has a result list, a 2xx
\* response whose JSON has none, a non-2xx status, a rejected fetch, a body that
\* response.json() cannot decode
Outcomes(baseOp, limit) ==
    { [kind |-> "ok", hasResult |-> TRUE, body |-> b] :
          b \in SeqsUpTo(RemoteRecords(baseOp), MaxRemoteLen) \cup {OverLimitBody(baseOp, limit)} }
    \cup { [kind |-> "ok", hasResult |-> FALSE, body |-> <<>>] }
    \cup { [kind |-> k, hasResult |-> FALSE, body |-> <<>>] : k \in FailureKinds }

(***************************************************************************)
(* Base accessors.  Each is the try/catch around one fetch: given the      *)
(* outcome of that fetch (and the random stream the generator would draw   *)
(* from), the settled promise the caller sees.  settled is "fulfilled"     *)
(* with the list, or "rejected"; path is the branch taken.                 *)
(***************************************************************************)
\* data.result || []
ResultOrEmpty(outcome) == IF outcome.hasResult THEN outcome.body ELSE <<>>

\* logApiSuccess(SVC, method, {recordCount, durationMs, source})
Report(source, list) == [source |-> source, recordCount |-> Len(list)]

Fulfilled(path, list, reports) ==
    [settled |-> "fulfilled", path |-> path, list |-> list, reports |-> reports]
Rejected == [settled |-> "rejected", path |-> "throw", list |-> <<>>, reports |-> <<>>]

\* mutant: a successful result is padded with generated records
getOpenIncidentsPadded(outcome, seed) ==
    IF outcome.kind = "ok"
    THEN LET results == ResultOrEmpty(outcome) \o getMockIncidents(seed)
         IN Fulfilled("api", results, <<Report("api", results)>>)
    ELSE LET mock == getMockIncidents(seed)
         IN Fulfilled("mock", mock, <<Report("mock", mock)>>)

getOpenIncidents(outcome, seed) ==
    IF outcome.kind = "ok"
    THEN LET results == ResultOrEmpty(outcome)
         IN Fulfilled("api", results, <<Report("api", results)>>)
    ELSE LET mock == getMockIncidents(seed)
         IN Fulfilled("mock", mock, <<Report("mock", mock)>>)

getResolvedIncidents(outcome, seed) ==
    IF outcome.kind = "ok"
    THEN LET results == ResultOrEmpty(outcome)
         IN Fulfilled("api", results, <<Report("api", results)>>)
    ELSE LET mock == getMockResolvedIncidents(seed)
         IN Fulfilled("mock", mock, <<Report("mock", mock)>>)

\* both generations of the change service: no report is made
getChanges(outcome, seed) ==
    IF outcome.kind = "ok"
    THEN Fulfilled("api", ResultOrEmpty(outcome), <<>>)
    ELSE Fulfilled("mock", getMockChanges(seed), <<>>)

\* mutant: the catch block lets a decode error through
getSLAPerformanceRethrow(outcome, seed) ==
    IF outcome.kind = "ok"
    THEN LET results == ResultOrEmpty(outcome)
         IN Fulfilled("api", results, <<Report("api", results)>>)
    ELSE IF outcome.kind = "decode_error" THEN Rejected
    ELSE LET mock == getMockSLAData(seed)
         IN Fulfilled("mock", mock, <<Report("mock", mock)>>)

getSLAPerformance(outcome, seed) ==
    IF outcome.kind = "ok"
    THEN LET results == ResultOrEmpty(outcome)
         IN Fulfilled("api", results, <<Report("api", results)>>)
    ELSE LET mock == getMockSLAData(seed)
         IN Fulfilled("mock", mock, <<Report("mock", mock)>>)

\* the legacy SLA service: the same branches, without reports
getSLAPerformanceLegacy(outcome, seed) ==
    IF outcome.kind = "ok"
    THEN Fulfilled("api", ResultOrEmpty(outcome), <<>>)
    ELSE Fulfilled("mock", getMockSLAData(seed), <<>>)

BaseReturn(baseOp, impl, outcome, seed) ==
    CASE baseOp = "getOpenIncidents" -> getOpenIncidents(outcome, seed)
      [] baseOp = "getResolvedIncidents" -> getResolvedIncidents(outcome, seed)
      [] baseOp = "getChanges" -> getChanges(outcome, seed)
      [] baseOp = "getSLAPerformance" ->
            IF impl = "legacy" THEN getSLAPerformanceLegacy(outcome, seed)
            ELSE getSLAPerformance(outcome, seed)

\* The two generations of the change and SLA services that the repository holds.
Impls == {"current", "legacy"}

\* sysparm_limit of the request: the legacy change service asks for a fixed 500
RequestLimit(baseOp, impl, filters) ==
    IF baseOp = "getChanges" /\ impl = "legacy" THEN LegacyChangeLimit ELSE RecordCap(filters)

BuildRequest(baseOp, impl, filters) ==
    [ table |-> CASE baseOp = "getChanges" -> "change_request"
                  [] baseOp = "getSLAPerformance" -> "task_sla"
                  [] OTHER -> "incident",
      limit |-> RequestLimit(baseOp, impl, filters) ]

(***************************************************************************)
(* Derived accessors, as functions of the list(s) their base accessor      *)
(* returned.                                                               *)
(***************************************************************************)
DerivedOps ==
    { "getSLABreaches", "getSLAComplianceRate", "getIncidentCountsByPriority",
      "getIncidentTimeSeries", "getIncidentsByCategory", "getChangeCountsByState",
      "getSuccessfulChanges", "getChangeTimeSeries" }

Ops == BaseOps \cup DerivedOps

BaseOf(op) ==
    CASE op \in BaseOps -> op
      [] op \in {"getSLABreaches", "getSLAComplianceRate"} -> "getSLAPerformance"
      [] op \in {"getIncidentCountsByPriority", "getIncidentTimeSeries",
                 "getIncidentsByCategory"} -> "getOpenIncidents"
      [] OTHER -> "getChanges"

\* the incident service exists in one generation only
ImplsOf(op) == IF BaseOf(op) \in {"getChanges", "getSLAPerformance"} THEN Impls ELSE {"current"}

IsBreached(sla) ==
    LET b == JsOr(OptDisplayValue(sla.has_breached), OptValue(sla.has_breached))
    IN b = Str("true") \/ b = Bool(TRUE)

getSLABreaches(slaData) == SelectSeq(slaData, IsBreached)

\* Math.round(num / den) for den > 0: the nearest integer, halves upwards
Round(num, den) == (2 * num + den) \div (2 * den)

\* rate is held in hundredths: the number Math.round(x) that the code divides by 100
ComplianceSentinel == [rate |-> 9250, total |-> 100, breached |-> 7, compliant |-> 93]

Compliance(total, breached) ==
    LET compliant == total - breached
    IN [ rate |-> Round(compliant * 10000, total), total |-> total,
         breached |-> breached, compliant |-> compliant ]

\* mutant: no sentinel, the zero totals are returned as computed
getSLAComplianceRateNoSentinel(allSLAs) ==
    IF Len(allSLAs) = 0
    THEN [rate |-> 0, total |-> 0, breached |-> 0, compliant |-> 0]
    ELSE Compliance(Len(allSLAs), Len(SelectSeq(allSLAs, IsBreached)))

\* the current service: one list, filtered for the numerator
getSLAComplianceRate(allSLAs) ==
    IF Len(allSLAs) = 0
    THEN ComplianceSentinel
    ELSE Compliance(Len(allSLAs), Len(SelectSeq(allSLAs, IsBreached)))

\* the legacy service: allSLAs from one getSLAPerformance call, breachedSLAs from
\* getSLABreaches, which calls getSLAPerformance again
getSLAComplianceRateLegacy(allSLAs, secondSLAs) ==
    IF Len(allSLAs) = 0
    THEN ComplianceSentinel
    ELSE Compliance(Len(allSLAs), Len(getSLABreaches(secondSLAs)))

\* String(priorityValue || '4').trim() for the priority field of one incident
PriorityKey(incident) ==
    LET p == incident.priority
        raw == CASE p.t = "object" -> JsOr(p.display_value, p.value)
                 [] p.t = "string" -> p
                 [] OTHER -> Str("4")
    IN JsOr(raw, Str("4"))

CountWhere(list, P(_)) == Cardinality({i \in 1..Len(list) : P(list[i])})

getIncidentCountsByPriority(incidents) ==
    LET n(k) == CountWhere(incidents, LAMBDA r : PriorityKey(r) = Str(k))
    IN [P1 |-> n("1"), P2 |-> n("2"), P3 |-> n("3"), P4 |-> n("4")]

getIncidentTimeSeries(incidents) ==
    [i \in 1..Len(incidents) |->
        [ sys_created_on |-> incidents[i].sys_created_on,
          priority |-> incidents[i].priority, state |-> incidents[i].state ]]

getIncidentsByCategory(incidents) == incidents

\* change.state?.display_value || 'Unknown'
StateLabel(change) == JsOr(OptDisplayValue(change.state), Str("Unknown"))

getChangeCountsByState(changes) ==
    { [state |-> k, count |-> CountWhere(changes, LAMBDA c : StateLabel(c) = k)] :
          k \in {StateLabel(changes[i]) : i \in 1..Len(changes)} }

IsSuccessful(change) ==
    LET state == JsOr(OptDisplayValue(change.state), OptValue(change.state))
    IN state = Str("Completed") \/ state = Str("3")

getSuccessfulChanges(changes) == SelectSeq(changes, IsSuccessful)

getChangeTimeSeries(changes) ==
    [i \in 1..Len(changes) |->
        [ sys_created_on |-> changes[i].sys_created_on,
          state |-> changes[i].state, type |-> changes[i].type ]]

\* mutant: every accessor goes to the network twice
BaseCallsOfTwice(op, impl) == 2

\* how many times the accessor awaits its base accessor
BaseCallsOf(op, impl) ==
    IF op = "getSLAComplianceRate" /\ impl = "legacy" THEN 2 ELSE 1

\* the value an accessor resolves with, from the lists its base calls returned
ListValue(list) == [kind |-> "list", list |-> list]
NoValue == [kind |-> "none"]

Derive(op, impl, lists) ==
    CASE op \in BaseOps -> ListValue(lists[1])
      [] op = "getSLABreaches" -> ListValue(getSLABreaches(lists[1]))
      [] op = "getSLAComplianceRate" ->
            [ kind |-> "compliance",
              c |-> IF impl = "legacy"
                    THEN getSLAComplianceRateLegacy(lists[1], lists[2])
                    ELSE getSLAComplianceRate(lists[1]) ]
      [] op = "getIncidentCountsByPriority" ->
            [kind |-> "counts", counts |-> getIncidentCountsByPriority(lists[1])]
      [] op = "getIncidentTimeSeries" -> ListValue(getIncidentTimeSeries(lists[1]))
      [] op = "getIncidentsByCategory" -> ListValue(getIncidentsByCategory(lists[1]))
      [] op = "getChangeCountsByState" ->
            [kind |-> "stateCounts", counts |-> getChangeCountsByState(lists[1])]
      [] op = "getSuccessfulChanges" -> ListValue(getSuccessfulChanges(lists[1]))
      [] op = "getChangeTimeSeries" -> ListValue(getChangeTimeSeries(lists[1]))

(***************************************************************************)
(* What the legacy derived accessors return from their own catch blocks,   *)
(* should their base accessor reject.                                      *)
(***************************************************************************)
HasOwnCatch(op, impl) == impl = "legacy" /\ op \in DerivedOps

LegacyCatchValue(op, seed) ==
    CASE op = "getSLABreaches" -> ListValue(<<>>)
      [] op = "getSLAComplianceRate" -> [kind |-> "compliance", c |-> ComplianceSentinel]
      [] op = "getChangeCountsByState" ->
            [ kind |-> "stateCounts",
              counts |-> { [state |-> Str("New"), count |-> 5],
                           [state |-> Str("Assess"), count |-> 8],
                           [state |-> Str("Scheduled"), count |-> 12],
                           [state |-> Str("Completed"), count |-> 25],
                           [state |-> Str("Failed"), count |-> 3] } ]
      [] op = "getSuccessfulChanges" -> ListValue(SubSeq(getMockChanges(seed), 1, 15))
      [] OTHER -> ListValue(<<>>)

(***************************************************************************)
(* One accessor call.                                                      *)
(*   pc        idle, querying (a fetch is outstanding), done               *)
(*   fetches   the number of fetch() calls made so far                     *)
(*   base      what each completed base-accessor call returned             *)
(*   settled   pending, fulfilled, rejected: the promise the caller holds  *)
(***************************************************************************)
CallIds == 1..4

IdleCall ==
    [ op |-> "none", impl |-> "current", filters |-> [recordLimit |-> 0],
      pc |-> "idle", fetches |-> 0, requests |-> <<>>, base |-> <<>>,
      reports |-> <<>>, settled |-> "pending", result |-> NoValue ]

\* the accessor is called: it builds its request and awaits fetch()
Started(op, impl, filters) ==
    [ IdleCall EXCEPT !.op = op, !.impl = impl, !.filters = filters,
                      !.pc = "querying", !.fetches = 1,
                      !.requests = <<BuildRequest(BaseOf(op), impl, filters)>> ]

\* the outstanding fetch of call c comes back with `outcome`
Resumed(c, outcome, seed) ==
    LET ret == BaseReturn(BaseOf(c.op), c.impl, outcome, seed)
        base == Append(c.base, [outcome |-> outcome.kind, settled |-> ret.settled,
                                path |-> ret.path, list |-> ret.list])
        lists == [i \in 1..Len(base) |-> base[i].list]
        reports == c.reports \o ret.reports
    IN  IF ret.settled = "rejected"
        THEN [ c EXCEPT !.base = base, !.reports = reports, !.pc = "done",
                 !.settled = IF HasOwnCatch(c.op, c.impl) THEN "fulfilled" ELSE "rejected",
                 !.result = IF HasOwnCatch(c.op, c.impl)
                            THEN LegacyCatchValue(c.op, seed) ELSE NoValue ]
        ELSE IF Len(base) < BaseCallsOf(c.op, c.impl)
        THEN [ c EXCEPT !.base = base, !.reports = reports,
                 !.fetches = c.fetches + 1,
                 !.requests = Append(c.requests, BuildRequest(BaseOf(c.op), c.impl, c.filters)) ]
        ELSE [ c EXCEPT !.base = base, !.reports = reports, !.pc = "done",
                 !.settled = "fulfilled", !.result = Derive(c.op, c.impl, lists) ]

\* the generator draws only when the fetch failed
SeedsFor(outcome) ==
    IF outcome.kind = "ok" THEN {[start |-> 0, step |-> 0]} ELSE RandSeeds

OutstandingLimit(c) == c.requests[Len(c.requests)].limit

Invoke(id, op, impl, filters) ==
    /\ calls[id].pc = "idle"
    /\ calls' = [calls EXCEPT ![id] = Started(op, impl, filters)]

Respond(id, outcome, seed) ==
    /\ calls[id].pc = "querying"
    /\ calls' = [calls EXCEPT ![id] = Resumed(calls[id], outcome, seed)]

(***************************************************************************)
(* Statistics helpers (chartUtils.js).  A mean is the exact rational       *)
(* num / den.                                                              *)
(***************************************************************************)
RECURSIVE SumSeq(_)
SumSeq(values) == IF Len(values) = 0 THEN 0 ELSE values[1] + SumSeq(Tail(values))

Rat(num, den) == [num |-> num, den |-> den]

\* mutant: no test for the empty list; 0 / 0 is NaN, held as the quotient 0 / 0
calculateAverageUnguarded(values) == Rat(SumSeq(values), Len(values))

calculateAverage(values) ==
    IF Len(values) = 0 THEN Rat(0, 1) ELSE Rat(SumSeq(values), Len(values))

\* the k-th smallest element of a non-empty list
KthSmallest(values, k) ==
    CHOOSE v \in {values[i] : i \in 1..Len(values)} :
        /\ Cardinality({i \in 1..Len(values) : values[i] < v}) < k
        /\ Cardinality({i \in 1..Len(values) : values[i] <= v}) >= k

calculateMedian(values) ==
    LET n == Len(values)
    IN  IF n = 0 THEN Rat(0, 1)
        ELSE IF n % 2 = 1 THEN Rat(KthSmallest(values, (n + 1) \div 2), 1)
        ELSE Rat(KthSmallest(values, n \div 2) + KthSmallest(values, n \div 2 + 1), 2)

(***************************************************************************)
(* MTTR.  new Date(s) of a timestamp string, and the difference            *)
(* (resolved - created) in hours; an unparseable string gives NaN.         *)
(***************************************************************************)
IsValidDate(s) == "iso" \in DOMAIN s

\* (resolved - created) / (1000 * 60 * 60) as [nan, hours]
HoursBetween(createdStr, resolvedStr) ==
    IF IsValidDate(createdStr) /\ IsValidDate(resolvedStr)
    THEN [nan |-> FALSE, hours |-> resolvedStr.iso - createdStr.iso]
    ELSE [nan |-> TRUE, hours |-> 0]

\* hours > 0: false for NaN
IsPositive(h) == ~h.nan /\ h.hours > 0

HasBothTimestamps(incident) ==
    Truthy(display(incident.resolved_at)) /\ Truthy(display(incident.sys_created_on))

IncidentHours(incident) ==
    HoursBetween(display(incident.sys_created_on), display(incident.resolved_at))

MapSeq(list, F(_)) == [i \in 1..Len(list) |-> F(list[i])]

\* OverviewTab: filter on both timestamps, map to hours, filter hours > 0
OverviewMttrValues(resolvedData) ==
    MapSeq(SelectSeq(MapSeq(SelectSeq(resolvedData, HasBothTimestamps), IncidentHours),
                     IsPositive),
           LAMBDA h : h.hours)

\* hours > 0 ? hours : 0
ClampedHours(incident) ==
    LET h == IncidentHours(incident) IN IF IsPositive(h) THEN h.hours ELSE 0

\* MTTRTab.loadMTTRData: each record gets mttr (clamped), then mttr > 0 is kept
MTTRTabValues(resolvedIncidents) ==
    SelectSeq(MapSeq(SelectSeq(resolvedIncidents, HasBothTimestamps),
                     LAMBDA r : [incident |-> r, mttr |-> ClampedHours(r)]),
              LAMBDA v : v.mttr > 0)

MTTRTabResult(resolvedIncidents) ==
    LET mttrValues == MTTRTabValues(resolvedIncidents)
        hours == MapSeq(mttrValues, LAMBDA v : v.mttr)
    IN [ resolvedIncidents |-> mttrValues, averaged |-> hours,
         avgMTTR |-> calculateAverage(hours), medianMTTR |-> calculateMedian(hours) ]

\* chartUtils.groupByTimeInterval: the start of the calendar bucket of a timestamp
\* (a month is 30 days on the model's clock)
Intervals == {"day", "week", "month"}

BucketHours(interval) ==
    CASE interval = "day" -> 24 [] interval = "week" -> 168 [] OTHER -> 720

BucketStart(dateStr, interval) ==
    (dateStr.iso \div BucketHours(interval)) * BucketHours(interval)

\* one group per bucket that holds a record, in ascending order of bucket start
RECURSIVE SortedSeq(_)
SortedSeq(S) ==
    IF S = {} THEN <<>>
    ELSE LET m == CHOOSE x \in S : \A y \in S : x <= y
         IN <<m>> \o SortedSeq(S \ {m})

groupByTimeInterval(records, interval) ==
    LET keys == {BucketStart(records[i].sys_created_on, interval) : i \in 1..Len(records)}
    IN MapSeq(SortedSeq(keys),
              LAMBDA k : [ date |-> k,
                           items |-> SelectSeq(records,
                               LAMBDA r : BucketStart(r.sys_created_on, interval) = k) ])

\* TrendsTab.loadTrendsData, "Process MTTR trends": the records handed to the grouping
TrendsMttrRecords(resolvedIncidents) ==
    MapSeq(SelectSeq(resolvedIncidents, HasBothTimestamps),
           LAMBDA i : [ sys_created_on |-> display(i.sys_created_on),
                        mttr |-> ClampedHours(i) ])

\* per group: the values averaged, and the point {date, count: avgMttr}; count is
\* held in tenths, the number Math.round(x * 10) that the code divides by 10
TrendsMttrResult(resolvedIncidents, interval) ==
    LET mttrGroups == groupByTimeInterval(TrendsMttrRecords(resolvedIncidents), interval)
    IN MapSeq(mttrGroups,
              LAMBDA g :
                LET mttrValues == SelectSeq(MapSeq(g.items, LAMBDA i : i.mttr),
                                            LAMBDA m : m > 0)
                IN [ date |-> g.date, items |-> g.items, averaged |-> mttrValues,
                     count |-> IF Len(mttrValues) > 0
                               THEN Round(SumSeq(mttrValues) * 10, Len(mttrValues))
                               ELSE 0 ])

(***************************************************************************)
(* The Overview tab: four accessor calls, each raced against its own       *)
(* 10-second timer, joined by Promise.allSettled.                          *)
(***************************************************************************)
OverviewOps ==
    <<"getOpenIncidents", "getChanges", "getSLAComplianceRate", "getResolvedIncidents">>

Slot(status, val) == [status |-> status, value |-> val]

\* status === 'fulfilled' ? value : [] (or { rate: 0 } for the SLA slot)
SlotDefault(i) ==
    IF i = 3 THEN [kind |-> "compliance", c |-> [rate |-> 0]] ELSE ListValue(<<>>)

SlotValue(slots, i) ==
    IF slots[i].status = "fulfilled" THEN slots[i].value ELSE SlotDefault(i)

\* mutant: Promise.all in place of Promise.allSettled, so that one rejection
\* sends the whole batch to the catch block and its fixed metrics
OverviewResultAll(slots) ==
    IF \E i \in 1..4 : slots[i].status = "rejected"
    THEN [ error |-> "Request timeout",
           used |-> [i \in 1..4 |-> SlotDefault(i)],
           mttrValues |-> <<>>,
           metrics |-> [ totalIncidents |-> 25, openIncidents |-> 18, totalChanges |-> 12,
                         slaCompliance |-> 9250, avgMTTR |-> Rat(162, 10),
                         medianMTTR |-> Rat(128, 10) ] ]
    ELSE [ error |-> "none",
           used |-> [i \in 1..4 |-> slots[i].value],
           mttrValues |-> OverviewMttrValues(slots[4].value.list),
           metrics |->
             [ totalIncidents |-> Len(slots[1].value.list),
               openIncidents |->
                   CountWhere(slots[1].value.list, LAMBDA r : display(r.state) # Str("6")),
               totalChanges |-> Len(slots[2].value.list),
               slaCompliance |-> slots[3].value.c.rate,
               avgMTTR |-> calculateAverage(OverviewMttrValues(slots[4].value.list)),
               medianMTTR |-> calculateMedian(OverviewMttrValues(slots[4].value.list)) ] ]

\* what the continuation after `await Promise.allSettled([...])` computes
OverviewResult(slots) ==
    LET incidentData == SlotValue(slots, 1).list
        changeData == SlotValue(slots, 2).list
        slaResult == SlotValue(slots, 3).c
        resolvedData == SlotValue(slots, 4).list
        mttrValues == OverviewMttrValues(resolvedData)
    IN [ error |-> "none",
         used |-> [i \in 1..4 |-> SlotValue(slots, i)],
         mttrValues |-> mttrValues,
         metrics |->
           [ totalIncidents |-> Len(incidentData),
             openIncidents |->
                 CountWhere(incidentData, LAMBDA r : display(r.state) # Str("6")),
             totalChanges |-> Len(changeData),
             slaCompliance |-> slaResult.rate,
             avgMTTR |-> calculateAverage(mttrValues),
             medianMTTR |-> calculateMedian(mttrValues) ] ]

IdleOverview ==
    [ pc |-> "idle", isLoading |-> FALSE, error |-> "none",
      slots |-> [i \in 1..4 |-> Slot("none", NoValue)],
      used |-> [i \in 1..4 |-> NoValue], mttrValues |-> <<>>,
      metrics |-> [ totalIncidents |-> 0, openIncidents |-> 0, totalChanges |-> 0,
                    slaCompliance |-> 0, avgMTTR |-> Rat(0, 1), medianMTTR |-> Rat(0, 1) ] ]

\* loadOverviewData up to its await: the four accessors are called in order
StartOverviewLoad(impl, filters) ==
    /\ ov.pc = "idle"
    /\ ~ov.isLoading
    /\ \A i \in CallIds : calls[i].pc = "idle"
    /\ calls' = [i \in CallIds |->
                    Started(OverviewOps[i],
                            IF impl \in ImplsOf(OverviewOps[i]) THEN impl ELSE "current",
                            filters)]
    /\ ov' = [ov EXCEPT !.pc = "waiting", !.isLoading = TRUE, !.error = "none",
                        !.slots = [i \in 1..4 |-> Slot("pending", NoValue)]]

\* Promise.race([promise, timeout]): the first to settle decides the slot
RaceSettled(slot, call) ==
    IF slot.status = "pending" /\ call.pc = "done"
    THEN IF call.settled = "fulfilled" THEN Slot("fulfilled", call.result)
         ELSE Slot("rejected", NoValue)
    ELSE slot

\* a fetch of call i comes back; when that completes the accessor, the race of
\* slot i is decided unless its timer already fired
OverviewFetchSettles(i, outcome, seed) ==
    /\ ov.pc \in {"waiting", "done"}
    /\ Respond(i, outcome, seed)
    /\ ov' = [ov EXCEPT !.slots[i] = RaceSettled(ov.slots[i], calls'[i])]

\* the timer of slot i fires first: reject(new Error('Request timeout'))
RequestTimeout(i) ==
    /\ ov.pc = "waiting"
    /\ ov.slots[i].status = "pending"
    /\ ov' = [ov EXCEPT !.slots[i] = Slot("rejected", NoValue)]
    /\ UNCHANGED calls

\* all four slots are settled: the rest of loadOverviewData runs
OverviewContinues ==
    /\ ov.pc = "waiting"
    /\ \A i \in 1..4 : ov.slots[i].status \in {"fulfilled", "rejected"}
    /\ LET r == OverviewResult(ov.slots)
       IN ov' = [ov EXCEPT !.pc = "done", !.isLoading = FALSE, !.error = r.error,
                           !.used = r.used, !.mttrValues = r.mttrValues,
                           !.metrics = r.metrics]
    /\ UNCHANGED calls

(***************************************************************************)
(* Spec: one accessor call, any accessor of either generation, any filter, *)
(* any outcome of each fetch.                                              *)
(***************************************************************************)
IdleMTTR == [input |-> <<>>, overview |-> NoValue, tab |-> NoValue, trends |-> NoValue]

\* nothing computed yet in the tabs
IdleTabs ==
    /\ qry = [pc |-> "idle"]
    /\ tr = [pc |-> "idle"]
    /\ ct = [pc |-> "idle"]
    /\ tab = [pc |-> "idle"]
    /\ fn = [pc |-> "idle"]
    /\ ui = [pc |-> "idle"]
    /\ sl = [pc |-> "idle"]
    /\ gen = [pc |-> "idle"]

Init ==
    /\ calls = [id \in CallIds |-> IdleCall]
    /\ ov = IdleOverview
    /\ mt = IdleMTTR
    /\ IdleTabs

InvokeAccessor ==
    /\ \E op \in Ops : \E impl \in ImplsOf(op) : \E f \in Filters : Invoke(1, op, impl, f)
    /\ UNCHANGED <<ov, mt, tabVars>>

FetchSettles ==
    /\ calls[1].pc = "querying"
    /\ \E o \in Outcomes(BaseOf(calls[1].op), OutstandingLimit(calls[1])) :
          \E seed \in SeedsFor(o) : Respond(1, o, seed)
    /\ UNCHANGED <<ov, mt, tabVars>>

Next == InvokeAccessor \/ FetchSettles

Spec == Init /\ [][Next]_vars

(***************************************************************************)
(* SpecOverview: one load of the Overview tab.  The remote answers each    *)
(* of the four calls in any order, or not before the timer.                *)
(***************************************************************************)
MaxOverviewLen == 1     \* longest remote result list in the Overview batch

\* one remote record per entity is enough to tell a remote value from a default
OverviewRecords(baseOp) ==
    CASE baseOp = "getOpenIncidents" ->
            {RemoteIncident(Str("3"), Pair(Str("6"), Str("6")), 2950)}
      [] baseOp = "getResolvedIncidents" ->
            {RemoteResolved(Pair(IsoStr(2900), IsoStr(2900)), Pair(IsoStr(2910), IsoStr(2910)))}
      [] baseOp = "getChanges" -> {RemoteChange(Pair(Str("Completed"), Str("4")), 2910)}
      [] baseOp = "getSLAPerformance" -> {RemoteSLA(Pair(Str("true"), Str("true")), 2900)}

OverviewOutcomes(baseOp) ==
    { [kind |-> "ok", hasResult |-> TRUE, body |-> b] :
          b \in SeqsUpTo(OverviewRecords(baseOp), MaxOverviewLen) }
    \cup { [kind |-> "transport_error", hasResult |-> FALSE, body |-> <<>>] }

OverviewSeeds(outcome) ==
    IF outcome.kind = "ok" THEN {[start |-> 0, step |-> 0]}
    ELSE {sd \in RandSeeds : sd.start = 0 /\ sd.step = MaxSeedStep}

OvStart ==
    /\ StartOverviewLoad("current", [recordLimit |-> DefaultRecordLimit])
    /\ UNCHANGED <<mt, tabVars>>

OvFetchSettles ==
    /\ \E i \in 1..4 : \E o \in OverviewOutcomes(BaseOf(OverviewOps[i])) :
          \E seed \in OverviewSeeds(o) : OverviewFetchSettles(i, o, seed)
    /\ UNCHANGED <<mt, tabVars>>

OvTimeout ==
    /\ \E i \in 1..4 : RequestTimeout(i)
    /\ UNCHANGED <<mt, tabVars>>

OvContinue ==
    /\ OverviewContinues
    /\ UNCHANGED <<mt, tabVars>>

NextOverview == OvStart \/ OvFetchSettles \/ OvTimeout \/ OvContinue

SpecOverview == Init /\ [][NextOverview]_vars

(***************************************************************************)
(* SpecMTTR: the MTTR computations of the Overview, MTTR and Trends tabs   *)
(* applied to one resolved-incident list, remote or synthetic.             *)
(***************************************************************************)
ResolvedInputs ==
    SeqsUpTo(RemoteResolvedIncidents, MaxRemoteLen)
    \cup {getMockResolvedIncidents(sd) : sd \in RandSeeds}

InitMTTR ==
    /\ calls = [id \in CallIds |-> IdleCall]
    /\ ov = IdleOverview
    /\ \E list \in ResolvedInputs : mt = [IdleMTTR EXCEPT !.input = list]
    /\ IdleTabs

OverviewComputesMTTR ==
    /\ mt.overview = NoValue
    /\ mt' = [mt EXCEPT !.overview =
                LET v == OverviewMttrValues(mt.input)
                IN [ kind |-> "mttr", averaged |-> v, avgMTTR |-> calculateAverage(v),
                     medianMTTR |-> calculateMedian(v) ]]
    /\ UNCHANGED <<calls, ov, tabVars>>

MTTRTabComputes ==
    /\ mt.tab = NoValue
    /\ mt' = [mt EXCEPT !.tab = [kind |-> "mttr", r |-> MTTRTabResult(mt.input)]]
    /\ UNCHANGED <<calls, ov, tabVars>>

TrendsComputesMTTR ==
    /\ mt.trends = NoValue
    /\ \E interval \in Intervals :
          mt' = [mt EXCEPT !.trends =
                    [ kind |-> "mttr", interval |-> interval,
                      mttrTrends |-> TrendsMttrResult(mt.input, interval) ]]
    /\ UNCHANGED <<calls, ov, tabVars>>

NextMTTR == OverviewComputesMTTR \/ MTTRTabComputes \/ TrendsComputesMTTR

SpecMTTR == InitMTTR /\ [][NextMTTR]_vars

(***************************************************************************)
(* Properties.                                                             *)
(***************************************************************************)
MockOf(baseOp, seed) ==
    CASE baseOp = "getOpenIncidents" -> getMockIncidents(seed)
      [] baseOp = "getResolvedIncidents" -> getMockResolvedIncidents(seed)
      [] baseOp = "getChanges" -> getMockChanges(seed)
      [] baseOp = "getSLAPerformance" -> getMockSLAData(seed)

IsSyntheticList(baseOp, list) == \E sd \in RandSeeds : list = MockOf(baseOp, sd)

BaseCallDone == calls[1].op \in BaseOps /\ calls[1].pc = "done"

\* C1: whatever way the fetch of a base accessor fails (non-2xx status, rejected
\* fetch, undecodable body), the accessor's promise is fulfilled, never rejected,
\* and it is fulfilled with a list the entity's synthetic generator produces.
C1_FallbackNeverRejects ==
    BaseCallDone =>
        /\ calls[1].settled = "fulfilled"
        /\ calls[1].result.kind = "list"
        /\ calls[1].base[1].outcome \in FailureKinds =>
              IsSyntheticList(calls[1].op, calls[1].result.list)

C1_Witness ==
    /\ BaseCallDone
    /\ calls[1].op = "getSLAPerformance"
    /\ calls[1].base[1].outcome = "decode_error"
    /\ calls[1].settled = "fulfilled"
    /\ Len(calls[1].result.list) = MockSLACount

\* C3 (as claimed): the list a base accessor returns is never longer than the
\* filter's record cap (filters.recordLimit, 2000 when unset), whatever the remote
\* sent and on the synthetic path alike.
C3_WithinRecordCap ==
    BaseCallDone => Len(calls[1].result.list) <= RecordCap(calls[1].filters)

\* recordLimit 500, and the remote answers 200 OK with 501 records
C3_Witness ==
    /\ BaseCallDone
    /\ calls[1].filters.recordLimit = 500
    /\ calls[1].requests[1].limit = 500
    /\ calls[1].base[1].path = "api"
    /\ Len(calls[1].result.list) = 501

C6_SingleProvenance ==
    BaseCallDone =>
        LET list == calls[1].result.list
        IN  \/ /\ calls[1].base[1].path = "api"
               /\ \A i \in 1..Len(list) : list[i].origin = "api"
            \/ /\ calls[1].base[1].path = "mock"
               /\ IsSyntheticList(calls[1].op, list)

C6_Witness ==
    /\ BaseCallDone
    /\ calls[1].op = "getOpenIncidents"
    /\ calls[1].base[1].path = "api"
    /\ Len(calls[1].result.list) = 2

DerivedCallDone == calls[1].op \in DerivedOps /\ calls[1].pc = "done"

\* C7 (as claimed): a derived accessor call causes exactly one base-accessor
\* fetch; getSLAComplianceRate in particular never takes numerator and
\* denominator from two fetches.
C7_DerivedFetchesOnce ==
    (calls[1].op \in DerivedOps /\ calls[1].pc # "idle") =>
        /\ calls[1].fetches = 1
        /\ Len(calls[1].base) <= 1

\* the legacy getSLAComplianceRate has issued its second fetch
C7_Witness ==
    /\ calls[1].op = "getSLAComplianceRate"
    /\ calls[1].impl = "legacy"
    /\ calls[1].pc = "querying"
    /\ calls[1].fetches = 2
    /\ Len(calls[1].base) = 1

ComplianceCallDone == calls[1].op = "getSLAComplianceRate" /\ calls[1].pc = "done"

\* C8 (as claimed): for a non-empty list from the base accessor,
\* getSLAComplianceRate returns total = the list's length, compliant + breached =
\* total, 0 <= breached <= total and rate = round((compliant/total)*10000)/100.
C8_ComplianceConsistent ==
    (ComplianceCallDone /\ Len(calls[1].base[1].list) > 0) =>
        LET r == calls[1].result.c
        IN  /\ r.total = Len(calls[1].base[1].list)
            /\ r.compliant + r.breached = r.total
            /\ 0 <= r.breached /\ r.breached <= r.total
            /\ r.rate = Round(r.compliant * 10000, r.total)

\* legacy: the first fetch returns one remote record, the second fails and its
\* synthetic list holds more breached records than the first list has records
C8_Witness ==
    /\ ComplianceCallDone
    /\ calls[1].impl = "legacy"
    /\ calls[1].base[1].path = "api" /\ Len(calls[1].base[1].list) = 1
    /\ calls[1].base[2].path = "mock"
    /\ calls[1].result.c.total = 1
    /\ calls[1].result.c.breached > 1
    /\ calls[1].result.c.compliant < 0

\* C9: when the base accessor returns an empty list, getSLAComplianceRate
\* returns exactly {rate: 92.5, total: 100, breached: 7, compliant: 93}.
C9_SentinelOnEmpty ==
    (ComplianceCallDone /\ Len(calls[1].base[1].list) = 0) =>
        /\ calls[1].result.c.rate = 9250
        /\ calls[1].result.c.total = 100
        /\ calls[1].result.c.breached = 7
        /\ calls[1].result.c.compliant = 93

C9_Witness ==
    /\ ComplianceCallDone
    /\ calls[1].impl = "current"
    /\ calls[1].base[1].path = "api"
    /\ Len(calls[1].base[1].list) = 0
    /\ calls[1].result.c.total = 100

\* the value slot i of the Overview batch would hold had its accessor fallen back
IsSyntheticValue(i, v) ==
    IF i = 3
    THEN \E sd \in RandSeeds :
            v = [kind |-> "compliance", c |-> getSLAComplianceRate(getMockSLAData(sd))]
    ELSE v.kind = "list" /\ IsSyntheticList(OverviewOps[i], v.list)

\* C2 (as claimed): when an accessor of the Overview batch has not resolved by
\* the deadline, the value used for it in the metrics is that accessor's
\* synthetic fallback output.
C2_TimeoutUsesFallback ==
    ov.pc = "done" =>
        \A i \in 1..4 : ov.slots[i].status = "rejected" => IsSyntheticValue(i, ov.used[i])

\* getOpenIncidents is still querying when its timer fires: the metrics are
\* computed from an empty incident list
C2_Witness ==
    /\ ov.pc = "done"
    /\ ov.slots[1].status = "rejected" /\ calls[1].pc = "querying"
    /\ ov.used[1] = ListValue(<<>>)
    /\ ov.metrics.totalIncidents = 0

\* C5: in the Overview batch each call is isolated from its siblings: a call
\* that completes before its own timer decides its slot at once, whatever the
\* other three do, and once the batch is joined every fulfilled slot's value is
\* the one used for the published metrics.
C5_BatchIsolation ==
    /\ ov.pc = "waiting" =>
          \A i \in 1..4 :
              /\ calls[i].pc = "done" => ov.slots[i].status # "pending"
              /\ ov.slots[i].status = "fulfilled" => ov.slots[i].value = calls[i].result
    /\ ov.pc = "done" =>
          /\ ov.error = "none"
          /\ \A i \in 1..4 :
                ov.slots[i].status = "fulfilled" =>
                    /\ ov.slots[i].value = calls[i].result
                    /\ ov.used[i] = calls[i].result
          /\ ov.slots[1].status = "fulfilled" =>
                ov.metrics.totalIncidents = Len(calls[1].result.list)
          /\ ov.slots[2].status = "fulfilled" =>
                ov.metrics.totalChanges = Len(calls[2].result.list)
          /\ ov.slots[3].status = "fulfilled" =>
                ov.metrics.slaCompliance = calls[3].result.c.rate
          /\ ov.slots[4].status = "fulfilled" =>
                ov.mttrValues = OverviewMttrValues(calls[4].result.list)

C5_Witness ==
    /\ ov.pc = "done"
    /\ ov.slots[1].status = "rejected" /\ calls[1].pc = "querying"
    /\ \A i \in 2..4 : ov.slots[i].status = "fulfilled"
    /\ ov.metrics.totalChanges = 1
    /\ ov.metrics.slaCompliance = 0
    /\ ov.mttrValues = <<10>>

AllPositive(values) == \A i \in 1..Len(values) : values[i] > 0

ValidResolved(incident) ==
    HasBothTimestamps(incident) /\ IsPositive(IncidentHours(incident))

\* every value the three tabs average is strictly positive
MttrAveragedPositive ==
    /\ mt.overview # NoValue => AllPositive(mt.overview.averaged)
    /\ mt.tab # NoValue => AllPositive(mt.tab.r.averaged)
    /\ mt.trends # NoValue =>
          \A g \in 1..Len(mt.trends.mttrTrends) : AllPositive(mt.trends.mttrTrends[g].averaged)

\* the MTTR tab counts as resolved only the records with a positive duration
MttrTabCountsValidOnly ==
    mt.tab # NoValue =>
        Len(mt.tab.r.resolvedIncidents) = CountWhere(mt.input, ValidResolved)

\* the MTTR trend keeps no record with a zero in its groups, so that every
\* point of the trend is the mean of at least one positive duration
MttrTrendKeepsNoZero ==
    mt.trends # NoValue =>
        \A g \in 1..Len(mt.trends.mttrTrends) :
            /\ \A k \in 1..Len(mt.trends.mttrTrends[g].items) :
                  mt.trends.mttrTrends[g].items[k].mttr > 0
            /\ mt.trends.mttrTrends[g].count > 0

\* C10 (as claimed): in the Overview, the MTTR tab and the MTTR trend, every
\* value that enters a mean or median is strictly positive, and a record lacking
\* a timestamp or with resolved <= created is excluded before the statistics: it
\* is not counted among the resolved incidents and is not kept with a zero.
C10_OnlyPositiveMTTR ==
    MttrAveragedPositive /\ MttrTabCountsValidOnly /\ MttrTrendKeepsNoZero

\* one remote record with resolved_at = sys_created_on: the trend holds a point
\* of value 0 for its day, made of that one record clamped to zero
C10_Witness ==
    /\ mt.input = << RemoteResolved(Pair(IsoStr(2900), IsoStr(2900)),
                                    Pair(IsoStr(2900), IsoStr(2900))) >>
    /\ mt.trends # NoValue
    /\ Len(mt.trends.mttrTrends) = 1
    /\ mt.trends.mttrTrends[1].count = 0
    /\ Len(mt.trends.mttrTrends[1].items) = 1
    /\ mt.trends.mttrTrends[1].items[1].mttr = 0

PriorityCallDone == calls[1].op = "getIncidentCountsByPriority" /\ calls[1].pc = "done"

\* C11 (as claimed): the counts {P1, P2, P3, P4} that getIncidentCountsByPriority
\* returns sum to the number of records of the list: a record whose priority is
\* absent, null or not one of 1..4 is counted in P4, never dropped.
C11_CountsSumToInput ==
    PriorityCallDone =>
        LET n == calls[1].result.counts
        IN n.P1 + n.P2 + n.P3 + n.P4 = Len(calls[1].base[1].list)

\* one remote incident of priority "5": no bucket counts it
C11_Witness ==
    /\ PriorityCallDone
    /\ calls[1].base[1].path = "api"
    /\ Len(calls[1].base[1].list) = 1
    /\ PriorityKey(calls[1].base[1].list[1]) = Str("5")
    /\ calls[1].result.counts = [P1 |-> 0, P2 |-> 0, P3 |-> 0, P4 |-> 0]

\* a null priority is counted in P4
C11_NullCountedP4 ==
    /\ PriorityCallDone
    /\ calls[1].base[1].path = "api"
    /\ Len(calls[1].base[1].list) = 1
    /\ calls[1].base[1].list[1].priority = Null
    /\ calls[1].result.counts.P4 = 1

(***************************************************************************)
(* Query building.  A string is the sequence of its characters; the fixed  *)
(* pieces of a query (field names, operators, literal values, the two      *)
(* computed dates) are single tokens, of which only "^" and "=" are the    *)
(* separator and the equality sign.                                        *)
(***************************************************************************)
MaxValueLen == 2        \* longest filter value, in characters

QueryChars == {"a", "b", "^", "=", "\n", "\r"}

\* the characters matched by /[\^=\n\r]/g
StrippedChars == {"^", "=", "\n", "\r"}

Text(chars) == [t |-> "string", chars |-> chars]

\* what a filter field can hold: nothing, a string, a number
QueryValues ==
    {Undefined, Num(5, 1)} \cup {Text(cs) : cs \in SeqsUpTo(QueryChars, MaxValueLen)}

\* if (filters.x): ToBoolean of the raw value
IsSet(v) == IF v.t = "string" THEN v.chars # <<>> ELSE Truthy(v)

\* `${v}`: the characters of String(v)
ToChars(v) == IF v.t = "string" THEN v.chars ELSE <<"5">>

IsOrdinary(c) == c \notin StrippedChars

sanitizeQueryValue(val) ==
    IF val.t # "string" THEN <<>> ELSE SelectSeq(val.chars, IsOrdinary)

\* buildDateQuery(start, end)
buildDateQuery == <<"sys_created_on", ">=", "start", "^", "sys_created_on", "<=", "end">>

\* the clause each accessor always appends to the date query
FixedClause(baseOp) ==
    CASE baseOp = "getOpenIncidents" -> <<"^", "active", "=", "true">>
      [] baseOp = "getResolvedIncidents" -> <<"^", "state", "=", "6">>
      [] baseOp = "getSLAPerformance" -> <<"^", "task.sys_class_name", "=", "incident">>
      [] OTHER -> <<>>

\* the filters each accessor reads, in source order, with the field each is matched on
FilterClauses(baseOp) ==
    CASE baseOp = "getOpenIncidents" ->
            << [filter |-> "priority", field |-> "priority"],
               [filter |-> "category", field |-> "category"],
               [filter |-> "assignmentGroup", field |-> "assignment_group.name"] >>
      [] baseOp = "getResolvedIncidents" ->
            << [filter |-> "priority", field |-> "priority"],
               [filter |-> "category", field |-> "category"] >>
      [] baseOp = "getChanges" ->
            << [filter |-> "state", field |-> "state"],
               [filter |-> "type", field |-> "type"],
               [filter |-> "assignmentGroup", field |-> "assignment_group.name"] >>
      [] baseOp = "getSLAPerformance" ->
            << [filter |-> "priority", field |-> "task.priority"],
               [filter |-> "slaType", field |-> "sla.name"] >>

\* the earlier generations of the change and SLA services interpolate the raw value
Sanitizes(baseOp, impl) == ~(impl = "legacy" /\ baseOp \in {"getChanges", "getSLAPerformance"})

InsertedChars(baseOp, impl, v) ==
    IF Sanitizes(baseOp, impl) THEN sanitizeQueryValue(v) ELSE ToChars(v)

\* the run of `if (filters.x) { query += `^field=${...}` }` statements from the k-th on
RECURSIVE AppendClauses(_, _, _, _, _)
AppendClauses(built, baseOp, impl, filters, k) ==
    LET cl == FilterClauses(baseOp)
    IN  IF k > Len(cl) THEN built
        ELSE LET v == filters[cl[k].filter]
                 ins == InsertedChars(baseOp, impl, v)
             IN  IF IsSet(v)
                 THEN AppendClauses(
                          [ query |-> built.query \o <<"^", cl[k].field, "=">> \o ins,
                            inserted |-> Append(built.inserted,
                                [filter |-> cl[k].filter, field |-> cl[k].field,
                                 raw |-> v, chars |-> ins]) ],
                          baseOp, impl, filters, k + 1)
                 ELSE AppendClauses(built, baseOp, impl, filters, k + 1)

\* the query string of the request; inserted lists the values interpolated into it
BuildQuery(baseOp, impl, filters) ==
    AppendClauses([query |-> buildDateQuery \o FixedClause(baseOp), inserted |-> <<>>],
                  baseOp, impl, filters, 1)

FilterNames == {"priority", "category", "assignmentGroup", "slaType", "state", "type"}

\* the filters an accessor can be called with: the fields it reads hold any value
QueryFilters(baseOp) ==
    LET cl == FilterClauses(baseOp)
    IN  { [n \in FilterNames |->
              IF \E k \in 1..Len(cl) : cl[k].filter = n
              THEN vals[CHOOSE k \in 1..Len(cl) : cl[k].filter = n]
              ELSE Undefined] : vals \in [1..Len(cl) -> QueryValues] }

\* the clauses of a query: its pieces between separators
RECURSIVE Clauses(_)
Clauses(query) ==
    IF \A i \in 1..Len(query) : query[i] # "^" THEN <<query>>
    ELSE LET i == CHOOSE j \in 1..Len(query) :
                      query[j] = "^" /\ \A h \in 1..(j - 1) : query[h] # "^"
         IN <<SubSeq(query, 1, i - 1)>> \o Clauses(SubSeq(query, i + 1, Len(query)))

(***************************************************************************)
(* SpecQuery: one accessor builds its query from any filters.              *)
(***************************************************************************)
AccessorBuildsQuery ==
    /\ qry.pc = "idle"
    /\ \E baseOp \in BaseOps : \E impl \in ImplsOf(baseOp) : \E f \in QueryFilters(baseOp) :
          LET b == BuildQuery(baseOp, impl, f)
          IN qry' = [ pc |-> "built", op |-> baseOp, impl |-> impl, filters |-> f,
                      query |-> b.query, inserted |-> b.inserted ]
    /\ UNCHANGED <<calls, ov, mt, tr, ct, tab, fn, ui, sl, gen>>

NextQuery == AccessorBuildsQuery

SpecQuery == Init /\ [][NextQuery]_vars

QueryBuilt == qry.pc = "built"

\* a clause that is a field name and an equality sign with nothing after it
IsEmptyClause(clause) == Len(clause) = 2 /\ clause[2] = "="

\* the filters with every value that sanitization empties taken out
WithoutEmptied(filters) ==
    [n \in FilterNames |->
        IF sanitizeQueryValue(filters[n]) = <<>> THEN Undefined ELSE filters[n]]

\* C12 (as claimed): an accessor that sanitizes its filter values omits the
\* clause of a value that sanitization reduces to the empty string: the query is
\* the one built without that filter, and it holds no clause 'field=' with an
\* empty value.
C12_FailsClosed ==
    (QueryBuilt /\ Sanitizes(qry.op, qry.impl)) =>
        /\ \A k \in 1..Len(Clauses(qry.query)) : ~IsEmptyClause(Clauses(qry.query)[k])
        /\ qry.query = BuildQuery(qry.op, qry.impl, WithoutEmptied(qry.filters)).query

\* the assignment group typed as "^": getOpenIncidents ends its query with the
\* clause assignment_group.name= and no value
C12_Witness ==
    /\ QueryBuilt
    /\ qry.op = "getOpenIncidents"
    /\ qry.filters = [n \in FilterNames |->
                         IF n = "assignmentGroup" THEN Text(<<"^">>) ELSE Undefined]
    /\ qry.query = buildDateQuery \o <<"^", "active", "=", "true">>
                                  \o <<"^", "assignment_group.name", "=">>

\* the filters that the accessor reads and that are set
SetFilters(baseOp, filters) ==
    {k \in 1..Len(FilterClauses(baseOp)) : IsSet(filters[FilterClauses(baseOp)[k].filter])}

\* the clauses of the query when every value is one piece: the two of the date
\* range, the accessor's fixed clause, one per filter that is set
ExpectedClauses(baseOp, filters) ==
    2 + (IF FixedClause(baseOp) = <<>> THEN 0 ELSE 1) + Cardinality(SetFilters(baseOp, filters))

InsertedClean ==
    \A k \in 1..Len(qry.inserted) :
        /\ \A i \in 1..Len(qry.inserted[k].chars) : qry.inserted[k].chars[i] \notin StrippedChars
        /\ qry.inserted[k].raw.t = "string" =>
              qry.inserted[k].chars = SelectSeq(qry.inserted[k].raw.chars, IsOrdinary)

\* the accessors that sanitize insert clean values and keep the clause count
SanitizedQueriesClean ==
    (QueryBuilt /\ Sanitizes(qry.op, qry.impl)) =>
        /\ InsertedClean
        /\ Len(Clauses(qry.query)) = ExpectedClauses(qry.op, qry.filters)

\* C13 (as claimed): in the query of any accessor, every inserted filter value
\* holds none of '^', '=', CR, LF and is the supplied string with exactly those
\* characters removed, so the number of clauses is fixed by which filters are set.
C13_NoInjection ==
    QueryBuilt =>
        /\ InsertedClean
        /\ Len(Clauses(qry.query)) = ExpectedClauses(qry.op, qry.filters)

\* the earlier SLA service with priority "^a": the value adds a clause of its own
C13_Witness ==
    /\ QueryBuilt
    /\ qry.op = "getSLAPerformance" /\ qry.impl = "legacy"
    /\ qry.filters = [n \in FilterNames |->
                         IF n = "priority" THEN Text(<<"^", "a">>) ELSE Undefined]
    /\ qry.inserted[1].chars = <<"^", "a">>
    /\ Len(Clauses(qry.query)) = 5

\* the accessors of IncidentService and of the later SLAService report once
ReportingAccessorsReportOnce ==
    (BaseCallDone /\ calls[1].op # "getChanges" /\ calls[1].impl = "current") =>
        calls[1].reports = <<Report(calls[1].base[1].path, calls[1].result.list)>>

\* C14 (as claimed): every base accessor call makes exactly one provenance
\* report, with source 'api' when the list came from the remote and 'mock' when
\* it is synthetic, and with a record count equal to the returned list's length.
C14_ReportsProvenanceOnce ==
    BaseCallDone =>
        /\ Len(calls[1].reports) = 1
        /\ calls[1].reports[1].source = calls[1].base[1].path
        /\ calls[1].reports[1].recordCount = Len(calls[1].result.list)

\* getChanges returned two remote records and reported nothing
C14_Witness ==
    /\ BaseCallDone
    /\ calls[1].op = "getChanges" /\ calls[1].impl = "current"
    /\ calls[1].base[1].path = "api"
    /\ Len(calls[1].result.list) = 2
    /\ calls[1].reports = <<>>

(***************************************************************************)
(* Numbers of the trend arithmetic.  A JavaScript number is an IEEE-754    *)
(* binary64: a quotient, a decimal literal and a product are each rounded  *)
(* to 53 significant bits, a tie going to the even significand.  A double  *)
(* is [man, exp] of value man * 2^exp, man being a natural number of       *)
(* exactly 53 bits (or zero) held as a list of limbs, least significant    *)
(* first, without leading zero limbs.                                      *)
(***************************************************************************)
LimbBits == 13
LimbBase == 2^LimbBits
SignificandBits == 53
GuardBits == 60         \* bits of a quotient computed before rounding

RECURSIVE BigOf(_)
BigOf(n) == IF n = 0 THEN <<>> ELSE <<n % LimbBase>> \o BigOf(n \div LimbBase)

RECURSIVE BigNorm(_)
BigNorm(a) ==
    IF Len(a) > 0 /\ a[Len(a)] = 0 THEN BigNorm(SubSeq(a, 1, Len(a) - 1)) ELSE a

Limb(a, i) == IF i <= Len(a) THEN a[i] ELSE 0

RECURSIVE BigAddFrom(_, _, _, _)
BigAddFrom(a, b, i, carry) ==
    IF i > Len(a) /\ i > Len(b) THEN BigOf(carry)
    ELSE LET t == Limb(a, i) + Limb(b, i) + carry
         IN  <<t % LimbBase>> \o BigAddFrom(a, b, i + 1, t \div LimbBase)

BigAdd(a, b) == BigNorm(BigAddFrom(a, b, 1, 0))

\* a * k for a factor k of at most one limb
RECURSIVE BigScaleFrom(_, _, _, _)
BigScaleFrom(a, k, i, carry) ==
    IF i > Len(a) THEN BigOf(carry)
    ELSE LET t == a[i] * k + carry
         IN  <<t % LimbBase>> \o BigScaleFrom(a, k, i + 1, t \div LimbBase)

BigScale(a, k) == BigNorm(BigScaleFrom(a, k, 1, 0))

RECURSIVE BigMul(_, _)
BigMul(a, b) ==
    IF Len(b) = 0 THEN <<>>
    ELSE BigAdd(BigScale(a, b[1]), BigNorm(<<0>> \o BigMul(a, Tail(b))))

\* quotient and remainder of a by a divisor d of at most one limb
RECURSIVE BigDivFrom(_, _, _, _)
BigDivFrom(a, d, i, rem) ==
    IF i = 0 THEN [quot |-> <<>>, rem |-> rem]
    ELSE LET t == rem * LimbBase + a[i]
             rest == BigDivFrom(a, d, i - 1, t % d)
         IN  [quot |-> rest.quot \o <<t \div d>>, rem |-> rest.rem]

BigDiv(a, d) ==
    LET r == BigDivFrom(a, d, Len(a), 0) IN [quot |-> BigNorm(r.quot), rem |-> r.rem]

RECURSIVE BigLessFrom(_, _, _)
BigLessFrom(a, b, i) ==
    IF i = 0 THEN FALSE
    ELSE IF a[i] # b[i] THEN a[i] < b[i]
    ELSE BigLessFrom(a, b, i - 1)

BigLess(a, b) == IF Len(a) # Len(b) THEN Len(a) < Len(b) ELSE BigLessFrom(a, b, Len(a))

RECURSIVE Bits(_)
Bits(n) == IF n = 0 THEN 0 ELSE 1 + Bits(n \div 2)

BitLength(a) == IF Len(a) = 0 THEN 0 ELSE (Len(a) - 1) * LimbBits + Bits(a[Len(a)])

RECURSIVE BigShiftLeft(_, _)
BigShiftLeft(a, k) ==
    IF k = 0 \/ Len(a) = 0 THEN a
    ELSE IF k >= LimbBits THEN BigShiftLeft(<<0>> \o a, k - LimbBits)
    ELSE BigScale(a, 2^k)

\* a without its k lowest bits, and whether one of those bits was set
BigDropBits(a, k) ==
    LET limbs == k \div LimbBits
        q == BigDiv(SubSeq(a, limbs + 1, Len(a)), 2^(k % LimbBits))
    IN  [kept |-> q.quot,
         lost |-> q.rem # 0 \/ \E i \in 1..limbs : a[i] # 0]

\* the double nearest to n * 2^e, or to a value a little above n * 2^e when
\* inexact (n then has more than 53 bits); a tie goes to the even significand
RoundDouble(n, e, inexact) ==
    LET len == BitLength(n)
    IN  IF len = 0 THEN [man |-> <<>>, exp |-> 0]
        ELSE IF len <= SignificandBits
             THEN [man |-> BigShiftLeft(n, SignificandBits - len),
                   exp |-> e - (SignificandBits - len)]
        ELSE LET drop == len - SignificandBits
                 d == BigDropBits(n, drop - 1)
                 half == BigDiv(d.kept, 2)
                 up == half.rem = 1 /\ (d.lost \/ inexact \/ Limb(half.quot, 1) % 2 = 1)
                 m == IF up THEN BigAdd(half.quot, <<1>>) ELSE half.quot
             IN  IF BitLength(m) > SignificandBits
                 THEN [man |-> BigDiv(m, 2).quot, exp |-> e + drop + 1]
                 ELSE [man |-> m, exp |-> e + drop]

\* s / n of two small whole numbers, n > 0; also the value of the decimal
\* literal whose digits are s over the power of ten n (1.1 is 11 over 10)
DoubleQuotient(s, n) ==
    LET q == BigDiv(BigShiftLeft(BigOf(s), GuardBits), n)
    IN  RoundDouble(q.quot, -GuardBits, q.rem # 0)

DoubleProduct(x, y) == RoundDouble(BigMul(x.man, y.man), x.exp + y.exp, FALSE)

\* x < y for doubles that are not negative
DoubleLess(x, y) ==
    IF Len(y.man) = 0 THEN FALSE
    ELSE IF Len(x.man) = 0 THEN TRUE
    ELSE IF x.exp # y.exp THEN x.exp < y.exp
    ELSE BigLess(x.man, y.man)

(***************************************************************************)
(* Trend classification (TrendsTab.calculateTrend).  A series is a list of *)
(* points {date, count}.                                                   *)
(***************************************************************************)
MaxTrendLen == 12       \* longest series classified

\* counts of a point: five points sum to 65, 78, ..., 130, so that the recent
\* window can be exactly 10% below the older one (117 : 130)
TrendCounts == {13, 26}

TrendPoint(c) == [count |-> c]

\* an array of points
Series(points) == [t |-> "array", items |-> points]

\* Array.prototype.slice(start, end) with relative (negative) indices
Slice(list, start, end) ==
    LET n == Len(list)
        rel(k) == IF k < 0 THEN (IF n + k < 0 THEN 0 ELSE n + k)
                  ELSE (IF k > n THEN n ELSE k)
    IN SubSeq(list, rel(start) + 1, rel(end))

RECURSIVE SumCounts(_)
SumCounts(points) ==
    IF Len(points) = 0 THEN 0 ELSE points[1].count + SumCounts(Tail(points))

\* the comparison of the two means
CompareMeans(recent, older) ==
    LET recentAvg == DoubleQuotient(SumCounts(recent), Len(recent))
        olderAvg == DoubleQuotient(SumCounts(older), Len(older))
    IN  IF DoubleLess(DoubleProduct(olderAvg, DoubleQuotient(11, 10)), recentAvg)
        THEN "Increasing"
        ELSE IF DoubleLess(recentAvg, DoubleProduct(olderAvg, DoubleQuotient(9, 10)))
             THEN "Decreasing"
        ELSE "Stable"

\* mutant: no test for an empty window; 0 / 0 is NaN, every comparison with it
\* is false and the series is called stable
calculateTrendUnguarded(data) ==
    IF ~Truthy(data) \/ Len(data.items) < 2 THEN "No trend"
    ELSE LET recent == Slice(data.items, -5, Len(data.items))
             older == Slice(data.items, -10, -5)
         IN  IF Len(recent) = 0 \/ Len(older) = 0 THEN "Stable"
             ELSE CompareMeans(recent, older)

calculateTrend(data) ==
    IF ~Truthy(data) \/ Len(data.items) < 2 THEN "No trend"
    ELSE LET recent == Slice(data.items, -5, Len(data.items))
             older == Slice(data.items, -10, -5)
         IN  IF Len(recent) = 0 \/ Len(older) = 0 THEN "Insufficient data"
             ELSE CompareMeans(recent, older)

\* the series a trend card can be given: none, or any list of points
TrendSeries ==
    {Undefined} \cup
    UNION {{Series([i \in 1..n |-> TrendPoint(cs[i])]) : cs \in [1..n -> TrendCounts]} :
               n \in 0..MaxTrendLen}

(***************************************************************************)
(* SpecTrend: the Trends tab holds a series and renders its trend.         *)
(***************************************************************************)
InitTrend ==
    /\ calls = [id \in CallIds |-> IdleCall]
    /\ ov = IdleOverview
    /\ mt = IdleMTTR
    /\ qry = [pc |-> "idle"] /\ ct = [pc |-> "idle"] /\ tab = [pc |-> "idle"]
    /\ fn = [pc |-> "idle"] /\ ui = [pc |-> "idle"]
    /\ sl = [pc |-> "idle"] /\ gen = [pc |-> "idle"]
    /\ \E data \in TrendSeries : tr = [pc |-> "loaded", data |-> data]

RenderTrend ==
    /\ tr.pc = "loaded"
    /\ tr' = [pc |-> "rendered", data |-> tr.data, trend |-> calculateTrend(tr.data)]
    /\ UNCHANGED <<calls, ov, mt, qry, ct, tab, fn, ui, sl, gen>>

NextTrend == RenderTrend

SpecTrend == InitTrend /\ [][NextTrend]_vars

TrendRendered == tr.pc = "rendered"

\* the sum of the counts of points from..to of a list
RECURSIVE SumRange(_, _, _)
SumRange(points, from, to) ==
    IF from > to THEN 0 ELSE points[from].count + SumRange(points, from + 1, to)

\* C15: for a series of at least 10 points the trend is 'Increasing' when the
\* mean of the last 5 counts is more than 10% above the mean of the 5 counts
\* before them, 'Decreasing' when it is more than 10% below, and 'Stable'
\* otherwise, exactly +10% and exactly -10% included.
C15_TrendThresholds ==
    (TrendRendered /\ Truthy(tr.data) /\ Len(tr.data.items) >= 10) =>
        LET n == Len(tr.data.items)
            recent == SumRange(tr.data.items, n - 4, n)
            older == SumRange(tr.data.items, n - 9, n - 5)
        IN tr.trend = IF 10 * recent > 11 * older THEN "Increasing"
                      ELSE IF 10 * recent < 9 * older THEN "Decreasing"
                      ELSE "Stable"

\* twelve points, the last five (sum 117, mean 23.4) exactly 10% below the five
\* before them (sum 130, mean 26), classified 'Decreasing': 117 / 5 rounds
\* down to a double below 23.4 and 26 * 0.9 rounds up to one above it
C15_Witness ==
    /\ TrendRendered /\ Truthy(tr.data)
    /\ Len(tr.data.items) = 12
    /\ SumRange(tr.data.items, 3, 7) = 130
    /\ SumRange(tr.data.items, 8, 12) = 117
    /\ tr.trend = "Decreasing"

\* away from a mean exactly 10% below, the classification is the stated one
TrendThresholdsOffBoundary ==
    (TrendRendered /\ Truthy(tr.data) /\ Len(tr.data.items) >= 10) =>
        LET n == Len(tr.data.items)
            recent == SumRange(tr.data.items, n - 4, n)
            older == SumRange(tr.data.items, n - 9, n - 5)
        IN  10 * recent # 9 * older =>
                tr.trend = IF 10 * recent > 11 * older THEN "Increasing"
                           ELSE IF 10 * recent < 9 * older THEN "Decreasing"
                           ELSE "Stable"

\* C16: a missing series or one of fewer than 2 points gives 'No trend'; a
\* series of 2 or more points with an empty comparison window (no point before
\* the last five) gives 'Insufficient data'; a mean is only ever taken of a
\* window that holds a point.
C16_TrendGuards ==
    TrendRendered =>
        /\ (~Truthy(tr.data) \/ Len(tr.data.items) < 2) <=> tr.trend = "No trend"
        /\ (Truthy(tr.data) /\ Len(tr.data.items) \in 2..5) <=> tr.trend = "Insufficient data"
        /\ tr.trend \in {"Increasing", "Decreasing", "Stable"} =>
              /\ Len(Slice(tr.data.items, -5, Len(tr.data.items))) > 0
              /\ Len(Slice(tr.data.items, -10, -5)) > 0

C16_Witness ==
    /\ TrendRendered /\ Truthy(tr.data)
    /\ Len(tr.data.items) = 5
    /\ tr.trend = "Insufficient data"

(***************************************************************************)
(* Synthetic records.                                                      *)
(***************************************************************************)
PriorityDigits == {Str("1"), Str("2"), Str("3"), Str("4")}

OpenFetchFailed ==
    /\ BaseCallDone
    /\ calls[1].op = "getOpenIncidents"
    /\ calls[1].base[1].outcome \in FailureKinds

\* C17: when the open-incident fetch fails, getOpenIncidents returns exactly
\* 35 synthetic records, and whatever the random source draws (0 included)
\* the priority of each record is one of 1, 2, 3, 4.
C17_SyntheticPriorities ==
    OpenFetchFailed =>
        /\ calls[1].result.kind = "list"
        /\ Len(calls[1].result.list) = MockIncidentCount
        /\ \A i \in 1..Len(calls[1].result.list) :
              /\ calls[1].result.list[i].priority.display_value \in PriorityDigits
              /\ calls[1].result.list[i].priority.value \in PriorityDigits

\* the fetch failed, 35 records came back, and the random source drew 0 for
\* the priority of one of them: Math.ceil(0 * 4) is 0
C17_Witness ==
    /\ OpenFetchFailed
    /\ Len(calls[1].result.list) = MockIncidentCount
    /\ \E i \in 1..Len(calls[1].result.list) :
          calls[1].result.list[i].priority.display_value = Str("0")

\* the fallback list always holds 35 records, each with a priority of 0 to 4
SyntheticOpenCount ==
    OpenFetchFailed =>
        /\ Len(calls[1].result.list) = MockIncidentCount
        /\ \A i \in 1..Len(calls[1].result.list) :
              calls[1].result.list[i].priority.value \in PriorityDigits \cup {Str("0")}

SyntheticResolvedInput == IsSyntheticList("getResolvedIncidents", mt.input)

ResolvedAfterCreated(incident) ==
    incident.resolved_at.value.iso > incident.sys_created_on.value.iso

\* C18: whatever the random source draws (0 included), each synthetic resolved
\* incident is resolved strictly after it was created, so each yields a
\* positive MTTR and the MTTR filters of the Overview and MTTR tabs keep all.
C18_SyntheticResolvedLater ==
    (SyntheticResolvedInput /\ mt.overview # NoValue /\ mt.tab # NoValue) =>
        /\ \A i \in 1..Len(mt.input) : ResolvedAfterCreated(mt.input[i])
        /\ Len(mt.overview.averaged) = Len(mt.input)
        /\ Len(mt.tab.r.resolvedIncidents) = Len(mt.input)

\* a synthetic list of 25 with a record whose offset draw was 0: resolved at
\* its creation instant, MTTR 0, dropped by both filters
C18_Witness ==
    /\ SyntheticResolvedInput /\ mt.overview # NoValue /\ mt.tab # NoValue
    /\ Len(mt.input) = MockResolvedCount
    /\ \E i \in 1..Len(mt.input) :
          mt.input[i].resolved_at.value.iso = mt.input[i].sys_created_on.value.iso
    /\ Len(mt.overview.averaged) < MockResolvedCount
    /\ Len(mt.tab.r.resolvedIncidents) < MockResolvedCount

\* a synthetic resolved incident is never resolved before it was created, and
\* the filters drop exactly the records resolved at their creation instant
SyntheticResolvedNotEarlier ==
    (SyntheticResolvedInput /\ mt.overview # NoValue) =>
        /\ \A i \in 1..Len(mt.input) :
              mt.input[i].resolved_at.value.iso >= mt.input[i].sys_created_on.value.iso
        /\ Len(mt.overview.averaged) =
              Cardinality({i \in 1..Len(mt.input) : ResolvedAfterCreated(mt.input[i])})

(***************************************************************************)
(* SpecChange: the Changes tab holds the list getChanges gave it and       *)
(* renders the success rate (ChangeTab.calculateSuccessRate).              *)
(***************************************************************************)
MaxChangeLen == 3       \* longest remote change list the tab is given

\* state fields as a response can carry them: label and code, the code in both
\* places, a bare code, none
ChangeTabStates ==
    { Pair(Str("Completed"), Str("4")), Pair(Str("Closed"), Str("3")),
      Pair(Str("Failed"), Str("-1")), Pair(Str("3"), Str("3")),
      Pair(Str("4"), Str("4")), Str("3"), Undefined }

ChangeTabInputs ==
    UNION {{[i \in 1..n |-> RemoteChange(st[i], 2900 + i)] : st \in [1..n -> ChangeTabStates]} :
              n \in 0..MaxChangeLen}
    \cup {getMockChanges(sd) : sd \in RandSeeds}

\* ['3', '4'].includes(display(change.state))
IsCompletedOrClosed(change) == display(change.state) \in {Str("3"), Str("4")}

\* display(change.state) === '3'
IsCountedSuccessful(change) == display(change.state) = Str("3")

\* the percentage Math.round(x * 100) || 0 and the two filtered lists behind it;
\* with no completed change the quotient is 0 / 0 = NaN and NaN || 0 is 0
calculateSuccessRate(allChanges) ==
    LET completedChanges == SelectSeq(allChanges, IsCompletedOrClosed)
        successfulChanges == SelectSeq(completedChanges, IsCountedSuccessful)
    IN  [ completedChanges |-> completedChanges,
          successfulChanges |-> successfulChanges,
          rate |-> IF Len(allChanges) = 0 \/ Len(completedChanges) = 0 THEN 0
                   ELSE Round(100 * Len(successfulChanges), Len(completedChanges)) ]

InitChange ==
    /\ calls = [id \in CallIds |-> IdleCall]
    /\ ov = IdleOverview
    /\ mt = IdleMTTR
    /\ qry = [pc |-> "idle"] /\ tr = [pc |-> "idle"] /\ tab = [pc |-> "idle"]
    /\ fn = [pc |-> "idle"] /\ ui = [pc |-> "idle"]
    /\ sl = [pc |-> "idle"] /\ gen = [pc |-> "idle"]
    /\ \E list \in ChangeTabInputs : ct = [pc |-> "loaded", allChanges |-> list]

RenderSuccessRate ==
    /\ ct.pc = "loaded"
    /\ ct' = [ pc |-> "rendered", allChanges |-> ct.allChanges,
               successRate |-> calculateSuccessRate(ct.allChanges) ]
    /\ UNCHANGED <<calls, ov, mt, qry, tr, tab, fn, ui, sl, gen>>

NextChange == RenderSuccessRate

SpecChange == InitChange /\ [][NextChange]_vars

SuccessRateRendered == ct.pc = "rendered"

FailedOrCancelled(change) ==
    \/ display(change.state) \in {Str("Failed"), Str("Cancelled"), Str("Canceled")}
    \/ value(change.state) = Str("-1")

\* C19: the success rate has in its denominator only changes in a terminal
\* state, counts as successful only completed ones (never a failed or
\* cancelled one), is 0 when no terminal-state change exists, and counts as
\* successful exactly the changes getSuccessfulChanges returns for that list.
C19_SuccessRate ==
    SuccessRateRendered =>
        LET r == ct.successRate
        IN  /\ \A i \in 1..Len(r.completedChanges) : IsCompletedOrClosed(r.completedChanges[i])
            /\ \A i \in 1..Len(r.successfulChanges) : ~FailedOrCancelled(r.successfulChanges[i])
            /\ Len(r.completedChanges) = 0 => r.rate = 0
            /\ r.successfulChanges = getSuccessfulChanges(ct.allChanges)

\* one change {display_value: 'Completed', value: '4'}, as the synthetic
\* generator writes it: getSuccessfulChanges returns it, the rate counts no
\* completed change at all and shows 0
C19_Witness ==
    /\ SuccessRateRendered
    /\ Len(ct.allChanges) = 1
    /\ ct.allChanges[1].state = Pair(Str("Completed"), Str("4"))
    /\ Len(getSuccessfulChanges(ct.allChanges)) = 1
    /\ ct.successRate.successfulChanges = <<>>
    /\ ct.successRate.rate = 0

\* the parts of the rate that do not depend on getSuccessfulChanges
SuccessRateShape ==
    SuccessRateRendered =>
        LET r == ct.successRate
        IN  /\ \A i \in 1..Len(r.completedChanges) : IsCompletedOrClosed(r.completedChanges[i])
            /\ \A i \in 1..Len(r.successfulChanges) : ~FailedOrCancelled(r.successfulChanges[i])
            /\ Len(r.completedChanges) = 0 => r.rate = 0
            /\ r.rate \in 0..100

\* on a synthetic list the rate is 0 whatever the list holds
SyntheticSuccessRateZero ==
    (SuccessRateRendered /\ IsSyntheticList("getChanges", ct.allChanges)) =>
        ct.successRate.rate = 0

(***************************************************************************)
(* SpecTabs: one tab is mounted and loaded (and reloaded by Retry or a     *)
(* refresh).  The lists its accessors give it may hold a null record; a    *)
(* property read of a null record throws a TypeError inside the try block. *)
(***************************************************************************)
MaxTabListLen == 2      \* longest list a tab load is given
MaxLoads == 2           \* loads of the mounted tab

TabNames == {"Overview", "Incidents", "Changes", "SLA", "MTTR", "Trends"}

\* the base accessor behind the list a tab walks
TabBaseOp(name) ==
    CASE name \in {"Overview", "Incidents", "Trends"} -> "getOpenIncidents"
      [] name = "Changes" -> "getChanges"
      [] name = "SLA" -> "getSLAPerformance"
      [] name = "MTTR" -> "getResolvedIncidents"

\* a remote list with well-formed and null records, or the synthetic list of
\* the data-unavailable path
TabLists(baseOp) ==
    SeqsUpTo({CHOOSE r \in RemoteRecords(baseOp) : TRUE, Null}, MaxTabListLen)
    \cup {MockOf(baseOp, CHOOSE sd \in RandSeeds : TRUE)}

\* the Overview also walks the resolved incidents
TabInputs(name) ==
    { [list |-> l, resolved |-> r] :
          l \in TabLists(TabBaseOp(name)),
          r \in IF name = "Overview"
                THEN SeqsUpTo({CHOOSE x \in RemoteResolvedIncidents : TRUE, Null}, 1)
                ELSE {<<>>} }

HasNullRecord(list) == \E i \in 1..Len(list) : list[i] = Null

\* the computation reads a property of every record of its lists
ComputationThrows(name, input) == HasNullRecord(input.list) \/ HasNullRecord(input.resolved)

\* the metrics the Overview's catch block sets
OverviewCatchMetrics ==
    [ totalIncidents |-> 25, openIncidents |-> 18, totalChanges |-> 12,
      slaCompliance |-> 9250, avgMTTR |-> Rat(162, 10), medianMTTR |-> Rat(128, 10) ]

\* useState's initial value
InitialTabData(name) ==
    IF name = "Overview" THEN IdleOverview.metrics ELSE [count |-> 0]

\* what the try block stores when nothing throws
ComputedTabData(name, input) ==
    IF name = "Overview"
    THEN OverviewResult(<< Slot("fulfilled", ListValue(input.list)),
                           Slot("fulfilled", ListValue(<<>>)),
                           Slot("fulfilled", [kind |-> "compliance", c |-> ComplianceSentinel]),
                           Slot("fulfilled", ListValue(input.resolved)) >>).metrics
    ELSE [count |-> Len(input.list)]

\* the branch of the render function taken
TabView(name, error, data) ==
    IF name = "Overview"
    THEN IF error # "none" /\ data.totalIncidents = 0 THEN "error-state" ELSE "metrics"
    ELSE IF error # "none" THEN "error-state" ELSE "metrics"

InitTabs ==
    /\ calls = [id \in CallIds |-> IdleCall]
    /\ ov = IdleOverview
    /\ mt = IdleMTTR
    /\ qry = [pc |-> "idle"] /\ tr = [pc |-> "idle"] /\ ct = [pc |-> "idle"]
    /\ fn = [pc |-> "idle"] /\ ui = [pc |-> "idle"]
    /\ sl = [pc |-> "idle"] /\ gen = [pc |-> "idle"]
    /\ \E name \in TabNames :
          tab = [ pc |-> "mounted", name |-> name, error |-> "none",
                  data |-> InitialTabData(name), loads |-> 0,
                  input |-> [list |-> <<>>, resolved |-> <<>>],
                  view |-> TabView(name, "none", InitialTabData(name)) ]

\* loadData up to its await: setError(null)
StartTabLoad(input) ==
    /\ tab.pc \in {"mounted", "settled"}
    /\ tab.loads < MaxLoads
    /\ tab' = [tab EXCEPT !.pc = "loading", !.error = "none", !.input = input,
                          !.loads = tab.loads + 1,
                          !.view = TabView(tab.name, "none", tab.data)]
    /\ UNCHANGED <<calls, ov, mt, qry, tr, ct, fn, ui, sl, gen>>

\* the rest of the try block, or the catch block when it throws
TabLoadContinues ==
    /\ tab.pc = "loading"
    /\ LET threw == ComputationThrows(tab.name, tab.input)
           error == IF threw THEN "TypeError" ELSE "none"
           data == IF ~threw THEN ComputedTabData(tab.name, tab.input)
                   ELSE IF tab.name = "Overview" THEN OverviewCatchMetrics
                   ELSE tab.data
       IN  tab' = [tab EXCEPT !.pc = "settled", !.error = error, !.data = data,
                              !.view = TabView(tab.name, error, data)]
    /\ UNCHANGED <<calls, ov, mt, qry, tr, ct, fn, ui, sl, gen>>

NextTabs ==
    \/ \E input \in TabInputs(tab.name) : StartTabLoad(input)
    \/ TabLoadContinues

SpecTabs == InitTabs /\ [][NextTabs]_vars

TabSettled == tab.pc = "settled"

\* C20: when the computation of a tab throws, the tab ends the load in its
\* error state (message and Retry in place of the metrics), and a load whose
\* computation does not throw (the data-unavailable path included) ends with
\* the metrics shown; this holds for every tab, the Overview included.
C20_ThrowShowsErrorState ==
    TabSettled =>
        IF ComputationThrows(tab.name, tab.input)
        THEN tab.view = "error-state"
        ELSE tab.view = "metrics"

\* the Overview was given a list with a null record, its computation threw, the
\* catch block stored the message and the fixed metrics, and the tab shows
\* those metrics
C20_Witness ==
    /\ TabSettled
    /\ tab.name = "Overview"
    /\ ComputationThrows(tab.name, tab.input)
    /\ tab.error = "TypeError"
    /\ tab.data = OverviewCatchMetrics
    /\ tab.view = "metrics"

\* every other tab shows its error state exactly when its computation threw
OtherTabsShowError ==
    (TabSettled /\ tab.name # "Overview") =>
        (tab.view = "error-state" <=> ComputationThrows(tab.name, tab.input))

\* the Overview never ends a load in its error state
OverviewNeverShowsError ==
    (tab.pc # "idle" /\ tab.name = "Overview") => tab.view = "metrics"

(***************************************************************************)
(* SLA breach classification.                                              *)
(***************************************************************************)
\* what a has_breached field denotes, whatever its shape
DenotesBreached(sla) ==
    LET h == sla.has_breached
        yes(x) == x = Str("true") \/ x = Bool(TRUE)
    IN  IF h.t = "object" THEN yes(h.display_value) \/ yes(h.value) ELSE yes(h)

CurrentSLACallDone(op) ==
    calls[1].op = op /\ calls[1].impl = "current" /\ calls[1].pc = "done"

\* C21: whether has_breached arrives as the bare scalar 'true' / true or as
\* a {display_value, value} pair denoting true, the record is counted as
\* breached by getSLABreaches and by getSLAComplianceRate; a pair denoting
\* false is not.
C21_BreachedAnyShape ==
    /\ CurrentSLACallDone("getSLABreaches") =>
          calls[1].result.list = SelectSeq(calls[1].base[1].list, DenotesBreached)
    /\ (CurrentSLACallDone("getSLAComplianceRate") /\ Len(calls[1].base[1].list) > 0) =>
          calls[1].result.c.breached =
              Len(SelectSeq(calls[1].base[1].list, DenotesBreached))

\* the remote list is the one record whose has_breached is the bare string
\* 'true'; getSLABreaches returns no record
C21_Witness ==
    /\ CurrentSLACallDone("getSLABreaches")
    /\ calls[1].base[1].path = "api"
    /\ Len(calls[1].base[1].list) = 1
    /\ calls[1].base[1].list[1].has_breached = Str("true")
    /\ calls[1].result.list = <<>>

\* records whose has_breached is a pair are classified by what the pair denotes
PairShapedBreachesCounted ==
    (CurrentSLACallDone("getSLABreaches") /\
     \A i \in 1..Len(calls[1].base[1].list) : calls[1].base[1].list[i].has_breached.t = "object") =>
        calls[1].result.list = SelectSeq(calls[1].base[1].list, DenotesBreached)

(***************************************************************************)
(* SpecStats: the statistics helpers applied to one list of MTTR values    *)
(* (hours): the histogram of the MTTR tab, the mean and the median.        *)
(***************************************************************************)
MaxStatLen == 3         \* longest list of values

\* values inside the ranges and on every boundary between two ranges
StatValues == {3, 4, 8, 16, 24, 48, 168, 200}

StatInputs == SeqsUpTo(StatValues, MaxStatLen)

\* the ranges of createMTTRDistribution; the last max is Infinity
MTTRBuckets ==
    << [min |-> 0, max |-> 4, bounded |-> TRUE], [min |-> 4, max |-> 8, bounded |-> TRUE],
       [min |-> 8, max |-> 16, bounded |-> TRUE], [min |-> 16, max |-> 24, bounded |-> TRUE],
       [min |-> 24, max |-> 48, bounded |-> TRUE], [min |-> 48, max |-> 168, bounded |-> TRUE],
       [min |-> 168, max |-> 0, bounded |-> FALSE] >>

\* mttr >= bucket.min && mttr < bucket.max
InBucket(mttr, bucket) == mttr >= bucket.min /\ (bucket.bounded => mttr < bucket.max)

\* mutant: the upper end of a range is inclusive
createMTTRDistributionClosed(mttrValues) ==
    [b \in 1..Len(MTTRBuckets) |->
        LET count == Len(SelectSeq(mttrValues,
                         LAMBDA v : v >= MTTRBuckets[b].min /\
                                    (MTTRBuckets[b].bounded => v <= MTTRBuckets[b].max)))
        IN [ bucket |-> MTTRBuckets[b], count |-> count,
             percentage |-> IF Len(mttrValues) > 0 THEN Rat(count * 100, Len(mttrValues))
                            ELSE Rat(0, 1) ]]

\* per range: count, and percentage as the exact quotient count * 100 / total
createMTTRDistribution(mttrValues) ==
    [b \in 1..Len(MTTRBuckets) |->
        LET count == Len(SelectSeq(mttrValues, LAMBDA v : InBucket(v, MTTRBuckets[b])))
        IN [ bucket |-> MTTRBuckets[b], count |-> count,
             percentage |-> IF Len(mttrValues) > 0 THEN Rat(count * 100, Len(mttrValues))
                            ELSE Rat(0, 1) ]]

InitStats ==
    /\ calls = [id \in CallIds |-> IdleCall]
    /\ ov = IdleOverview
    /\ mt = IdleMTTR
    /\ qry = [pc |-> "idle"] /\ tr = [pc |-> "idle"] /\ ct = [pc |-> "idle"]
    /\ tab = [pc |-> "idle"] /\ ui = [pc |-> "idle"]
    /\ sl = [pc |-> "idle"] /\ gen = [pc |-> "idle"]
    /\ \E values \in StatInputs : fn = [pc |-> "given", values |-> values]

ApplyStatistics ==
    /\ fn.pc = "given"
    /\ fn' = [ pc |-> "applied", values |-> fn.values,
               mttrDistribution |-> createMTTRDistribution(fn.values),
               avgMTTR |-> calculateAverage(fn.values),
               medianMTTR |-> calculateMedian(fn.values) ]
    /\ UNCHANGED <<calls, ov, mt, qry, tr, ct, tab, ui, sl, gen>>

NextStats == ApplyStatistics

SpecStats == InitStats /\ [][NextStats]_vars

StatisticsApplied == fn.pc = "applied"

RECURSIVE SumBucketCounts(_, _)
SumBucketCounts(dist, b) == IF b = 0 THEN 0 ELSE dist[b].count + SumBucketCounts(dist, b - 1)

\* the first range that holds v, scanning the ranges in order
FirstRange(v) ==
    CHOOSE b \in 1..Len(MTTRBuckets) :
        /\ InBucket(v, MTTRBuckets[b])
        /\ \A a \in 1..(b - 1) : ~InBucket(v, MTTRBuckets[a])

\* C22: the histogram counts every value in exactly one bucket, the first
\* half-open range [min, max) that holds it, the last range being unbounded:
\* the counts sum to the length of the list, each percentage is
\* count / total * 100, and every percentage is 0 for the empty list.
C22_HistogramPartitions ==
    StatisticsApplied =>
        LET d == fn.mttrDistribution
            n == Len(fn.values)
        IN  /\ SumBucketCounts(d, Len(d)) = n
            /\ \A b \in 1..Len(d) :
                  /\ d[b].count = Cardinality({i \in 1..n : FirstRange(fn.values[i]) = b})
                  /\ n > 0 => d[b].percentage.num * n = d[b].count * 100 * d[b].percentage.den
                  /\ n = 0 => d[b].percentage.num = 0 /\ d[b].percentage.den # 0

\* three values, two of them on a boundary (4 and 168) and one beyond the last
\* bounded range: 4 is counted in 4-8h only, 168 and 200 in 7d+
C22_Witness ==
    /\ StatisticsApplied
    /\ fn.values = <<4, 168, 200>>
    /\ fn.mttrDistribution[1].count = 0
    /\ fn.mttrDistribution[2].count = 1
    /\ fn.mttrDistribution[6].count = 0
    /\ fn.mttrDistribution[7].count = 2

\* the empty list: every count and every percentage is 0
C22_EmptyList ==
    (StatisticsApplied /\ fn.values = <<>>) =>
        \A b \in 1..Len(fn.mttrDistribution) :
            fn.mttrDistribution[b].count = 0 /\ fn.mttrDistribution[b].percentage = Rat(0, 1)

\* s holds the values of the list in ascending order
IsSortingOf(s, values) ==
    /\ Len(s) = Len(values)
    /\ \A i \in 1..(Len(s) - 1) : s[i] <= s[i + 1]
    /\ \E p \in Permutations(1..Len(values)) : \A i \in 1..Len(values) : s[i] = values[p[i]]

\* the quotients a and b are the same number, neither being NaN
SameNumber(a, b) == a.den # 0 /\ b.den # 0 /\ a.num * b.den = b.num * a.den

\* C23: the mean is 0 for the empty list and sum / length otherwise; the
\* median is 0 for the empty list and otherwise the middle element of the
\* sorted list (odd length) or the average of its two middle elements (even
\* length); neither fails on the empty list.
C23_MeanAndMedian ==
    StatisticsApplied =>
        LET n == Len(fn.values)
        IN  /\ n = 0 => SameNumber(fn.avgMTTR, Rat(0, 1)) /\ SameNumber(fn.medianMTTR, Rat(0, 1))
            /\ n > 0 => SameNumber(fn.avgMTTR, Rat(SumSeq(fn.values), n))
            /\ n > 0 =>
                  \A s \in [1..n -> {fn.values[i] : i \in 1..n}] :
                      IsSortingOf(s, fn.values) =>
                          SameNumber(fn.medianMTTR,
                                     IF n % 2 = 1 THEN Rat(s[(n + 1) \div 2], 1)
                                     ELSE Rat(s[n \div 2] + s[n \div 2 + 1], 2))

\* an unsorted list of odd length: mean 68 / 3, median the middle value 16 of
\* the sorted list, not the middle element 4 of the list as given
C23_Witness ==
    /\ StatisticsApplied
    /\ fn.values = <<48, 4, 16>>
    /\ SameNumber(fn.avgMTTR, Rat(68, 3))
    /\ SameNumber(fn.medianMTTR, Rat(16, 1))

\* the empty list gives 0 and 0
C23_EmptyList ==
    (StatisticsApplied /\ fn.values = <<>>) =>
        fn.avgMTTR = Rat(0, 1) /\ fn.medianMTTR = Rat(0, 1)

(***************************************************************************)
(* SpecDashboard: the dashboard with one tab mounted.  The tab's effect    *)
(* starts a load on mount (React.StrictMode runs the effects of a mounted  *)
(* component twice in a development build, from the same render) and on    *)
(* every change of lastUpdated; a load awaits its fetches and then stores  *)
(* its data and reports onLoadingChange(false).                            *)
(***************************************************************************)
MaxInvocations == 3     \* invocations of a tab's load function

LoadIds == 1..MaxInvocations

Builds == {"development", "production"}

\* refresh triggers: the 5-minute interval, the Refresh button, a filter change
RefreshKinds == {"timer", "manual", "filter"}

\* the fetches one load awaits
RequestsOf(name) == IF name = "MTTR" THEN 1 ELSE 4

\* one invocation of the tab's load function from a render whose closure holds
\* closureIsLoading; only the Overview tests it
InvokeLoad(u, closureIsLoading) ==
    IF u.tab = "Overview" /\ closureIsLoading
    THEN [u EXCEPT !.loads = Append(u.loads, [pc |-> "skipped", outstanding |-> 0])]
    ELSE [u EXCEPT !.loads = Append(u.loads, [pc |-> "waiting",
                                              outstanding |-> RequestsOf(u.tab)]),
                   !.isLoading = IF u.tab = "Overview" THEN TRUE ELSE u.isLoading,
                   !.loading = TRUE]

\* the continuation of load l and its finally block
FinishLoad(u, l) ==
    [u EXCEPT !.loads[l] = [pc |-> "done", outstanding |-> 0],
              !.data = l,
              !.isLoading = FALSE,
              !.loading = FALSE]

InitDashboard ==
    /\ calls = [id \in CallIds |-> IdleCall]
    /\ ov = IdleOverview
    /\ mt = IdleMTTR
    /\ qry = [pc |-> "idle"] /\ tr = [pc |-> "idle"] /\ ct = [pc |-> "idle"]
    /\ tab = [pc |-> "idle"] /\ fn = [pc |-> "idle"]
    /\ sl = [pc |-> "idle"] /\ gen = [pc |-> "idle"]
    /\ \E name \in TabNames, build \in Builds :
          ui = [ pc |-> "rendered", tab |-> name, build |-> build, loading |-> FALSE,
                 isLoading |-> FALSE, loads |-> <<>>, data |-> 0 ]

\* the effects of the first render run: once, or twice under StrictMode in a
\* development build, each time with the closure of that render
MountEffects ==
    /\ ui.pc = "rendered"
    /\ ui' = [ (IF ui.build = "development"
                THEN InvokeLoad(InvokeLoad(ui, FALSE), FALSE)
                ELSE InvokeLoad(ui, FALSE))
               EXCEPT !.pc = "mounted" ]
    /\ UNCHANGED <<calls, ov, mt, qry, tr, ct, tab, fn, sl, gen>>

\* lastUpdated changes: the tree renders with the current state and the effect
\* runs from that render; the button and the filter inputs are disabled while
\* the shared flag is set, the interval is not
Refresh(kind) ==
    /\ ui.pc = "mounted"
    /\ Len(ui.loads) < MaxInvocations
    /\ kind = "timer" \/ ~ui.loading
    /\ ui' = InvokeLoad(ui, ui.isLoading)
    /\ UNCHANGED <<calls, ov, mt, qry, tr, ct, tab, fn, sl, gen>>

\* one fetch of load l gets its response (or fails); the accessor settles, and
\* when it was the last one the load continues
FetchResponds(l) ==
    /\ l <= Len(ui.loads)
    /\ ui.loads[l].pc = "waiting"
    /\ ui.loads[l].outstanding > 0
    /\ ui' = IF ui.loads[l].outstanding = 1
             THEN FinishLoad(ui, l)
             ELSE [ui EXCEPT !.loads[l].outstanding = ui.loads[l].outstanding - 1]
    /\ UNCHANGED <<calls, ov, mt, qry, tr, ct, tab, fn, sl, gen>>

\* the 10-second timers of an Overview load fire: every slot still pending is
\* rejected, the batch settles and the load continues
LoadTimersFire(l) ==
    /\ l <= Len(ui.loads)
    /\ ui.tab = "Overview"
    /\ ui.loads[l].pc = "waiting"
    /\ ui' = FinishLoad(ui, l)
    /\ UNCHANGED <<calls, ov, mt, qry, tr, ct, tab, fn, sl, gen>>

NextDashboard ==
    \/ MountEffects
    \/ \E kind \in RefreshKinds : Refresh(kind)
    \/ \E l \in LoadIds : FetchResponds(l)
    \/ \E l \in LoadIds : LoadTimersFire(l)

SpecDashboard == InitDashboard /\ [][NextDashboard]_vars

\* what the runtime guarantees: effects run and timers fire; nothing makes a
\* remote answer
SpecDashboardFair ==
    /\ SpecDashboard
    /\ WF_vars(MountEffects)
    /\ \A l \in LoadIds : WF_vars(LoadTimersFire(l))

InFlight(l) == l <= Len(ui.loads) /\ ui.loads[l].pc = "waiting"

Finished(l) == l <= Len(ui.loads) /\ ui.loads[l].pc = "done"

\* C24: every tab load that starts eventually finishes and reports
\* onLoadingChange(false), whatever the remote does: for the Overview even when
\* a request never resolves, and for the other tabs as well.
C24_LoadsFinish ==
    \A l \in LoadIds : InFlight(l) ~> (Finished(l) /\ ~InFlight(l))

\* a load of a tab other than the Overview waits for a fetch, and no timer
\* stands behind it: nothing but the remote can end the wait
C24_Witness ==
    /\ ui.pc = "mounted"
    /\ ui.tab = "Incidents"
    /\ InFlight(1)
    /\ ui.loads[1].outstanding = RequestsOf("Incidents")
    /\ ui.loading
    /\ ~ENABLED LoadTimersFire(1)

\* the Overview's loads do finish, the timers settling what the remote leaves open
OverviewLoadsFinish ==
    \A l \in LoadIds : (ui.tab = "Overview" /\ InFlight(l)) ~> Finished(l)

LoadsInFlight == {l \in LoadIds : InFlight(l)}

\* C25: at most one Overview load is in flight at any time: an invocation
\* that begins while an earlier one has not reached its finally block returns
\* without issuing an accessor call, also when both are started from the same
\* render.
C25_OneOverviewLoad ==
    ui.tab = "Overview" => Cardinality(LoadsInFlight) <= 1

\* development build: the effect ran twice from the first render, both
\* invocations read isLoading = false from its closure and both loads wait
C25_Witness ==
    /\ ui.tab = "Overview"
    /\ ui.build = "development"
    /\ InFlight(1) /\ InFlight(2)
    /\ ui.loads[1].outstanding = 4 /\ ui.loads[2].outstanding = 4

\* with one effect run per render the guard does hold loads apart
OverviewGuardAcrossRenders ==
    (ui.tab = "Overview" /\ ui.build = "production") => Cardinality(LoadsInFlight) <= 1

\* C26: the shared loading flag is true whenever a tab load is in flight,
\* however the loads overlap; it is false only when none is in flight.
C26_FlagCoversLoads ==
    LoadsInFlight # {} => ui.loading

\* the first of two overlapping loads has finished and cleared the flag while
\* the second still waits
C26_Witness ==
    /\ ui.tab = "Incidents"
    /\ Finished(1)
    /\ InFlight(2)
    /\ ~ui.loading

\* with no load in flight the flag is false
FlagClearWhenIdle ==
    (ui.pc = "mounted" /\ LoadsInFlight = {}) => ~ui.loading

\* C27: once overlapping loads of a tab have all finished, the data shown is
\* that of the load started last, in whatever order their requests resolved.
C27_LatestLoadShown ==
    (LoadsInFlight = {} /\ \E l \in LoadIds : Finished(l)) =>
        ui.data = CHOOSE l \in LoadIds : Finished(l) /\ \A k \in LoadIds : Finished(k) => k <= l

\* two loads overlapped, the second finished first, and the tab shows the data
\* of the first
C27_Witness ==
    /\ ui.tab = "Incidents"
    /\ Len(ui.loads) = 2
    /\ Finished(1) /\ Finished(2)
    /\ ui.data = 1

\* the data shown is always that of a finished load
ShownDataIsOfFinishedLoad ==
    ui.pc = "mounted" => (ui.data = 0 \/ Finished(ui.data))

(***************************************************************************)
(* SpecSLATab: one load of the SLA tab.  loadSLAData calls four accessors  *)
(* at once; getSLAComplianceRate, getSLABreaches and getSLAPerformance     *)
(* each await their own fetch of task_sla, getSLATypes one of contract_sla,*)
(* and each falls back to synthetic data on its own.                       *)
(***************************************************************************)
MaxSLATabLen == 1       \* longest remote task_sla list in one SLA tab load

SLATabOps == <<"getSLAComplianceRate", "getSLABreaches", "getSLAPerformance">>

SLATabOutcomes ==
    { [kind |-> "ok", hasResult |-> TRUE, body |-> b] :
          b \in SeqsUpTo(RemoteSLAs, MaxSLATabLen) }
    \cup { [kind |-> "transport_error", hasResult |-> FALSE, body |-> <<>>] }

\* useState({complianceRate: {rate: 0, total: 0, breached: 0, compliant: 0}, ...})
InitialSLAData ==
    [ complianceRate |-> [rate |-> 0, total |-> 0, breached |-> 0, compliant |-> 0],
      breaches |-> <<>>, performance |-> <<>>, slaTypes |-> "none" ]

InitSLATab ==
    /\ calls = [id \in CallIds |-> IdleCall]
    /\ ov = IdleOverview
    /\ mt = IdleMTTR
    /\ qry = [pc |-> "idle"] /\ tr = [pc |-> "idle"] /\ ct = [pc |-> "idle"]
    /\ tab = [pc |-> "idle"] /\ fn = [pc |-> "idle"] /\ ui = [pc |-> "idle"]
    /\ gen = [pc |-> "idle"]
    /\ sl = [pc |-> "rendered", slaTypes |-> "none", slaData |-> InitialSLAData]

\* loadSLAData up to its await: the accessors are called in order
StartSLALoad ==
    /\ sl.pc = "rendered"
    /\ \E f \in Filters :
          calls' = [id \in CallIds |->
                       IF id <= Len(SLATabOps)
                       THEN Started(SLATabOps[id], "current", f) ELSE calls[id]]
    /\ sl' = [sl EXCEPT !.pc = "loading", !.slaTypes = "pending"]
    /\ UNCHANGED <<ov, mt, qry, tr, ct, tab, fn, ui, gen>>

\* the fetch of one of the three task_sla calls comes back
SLAFetchSettles ==
    /\ sl.pc = "loading"
    /\ \E i \in 1..Len(SLATabOps) : \E o \in SLATabOutcomes :
          \E seed \in SeedsFor(o) : Respond(i, o, seed)
    /\ UNCHANGED <<ov, mt, qry, tr, ct, tab, fn, ui, sl, gen>>

\* getSLATypes resolves with the remote names or with its two built-in names
SLATypesSettle ==
    /\ sl.pc = "loading" /\ sl.slaTypes = "pending"
    /\ \E source \in {"api", "mock"} : sl' = [sl EXCEPT !.slaTypes = source]
    /\ UNCHANGED <<calls, ov, mt, qry, tr, ct, tab, fn, ui, gen>>

\* Promise.all has resolved: setSlaData({complianceRate, breaches, performance, slaTypes})
SLALoadContinues ==
    /\ sl.pc = "loading" /\ sl.slaTypes # "pending"
    /\ \A i \in 1..Len(SLATabOps) : calls[i].pc = "done"
    /\ sl' = [sl EXCEPT !.pc = "loaded",
                !.slaData = [ complianceRate |-> calls[1].result.c,
                              breaches |-> calls[2].result.list,
                              performance |-> calls[3].result.list,
                              slaTypes |-> sl.slaTypes ]]
    /\ UNCHANGED <<calls, ov, mt, qry, tr, ct, tab, fn, ui, gen>>

NextSLATab == StartSLALoad \/ SLAFetchSettles \/ SLATypesSettle \/ SLALoadContinues

SpecSLATab == InitSLATab /\ [][NextSLATab]_vars

SLALoaded == sl.pc = "loaded"

\* C28: within one load of the SLA tab, whenever complianceRate.total > 0 and
\* complianceRate is not the sentinel, complianceRate.total is the number of
\* performance records the load stored and complianceRate.breached the number
\* of breach records it stored, whatever the outcome of each of the three
\* requests.
C28_FiguresDescribeOneSet ==
    (SLALoaded /\ sl.slaData.complianceRate.total > 0
               /\ sl.slaData.complianceRate # ComplianceSentinel) =>
        /\ sl.slaData.complianceRate.total = Len(sl.slaData.performance)
        /\ sl.slaData.complianceRate.breached = Len(sl.slaData.breaches)

\* the request of getSLAComplianceRate is answered with one record, that of
\* getSLAPerformance fails: a rate over 1 record beside 50 synthetic records
C28_Witness ==
    /\ SLALoaded
    /\ calls[1].base[1].path = "api" /\ calls[3].base[1].path = "mock"
    /\ sl.slaData.complianceRate.total = 1
    /\ Len(sl.slaData.performance) = MockSLACount

\* when the three requests come back with one and the same list, the figures agree
SLAFiguresAgreeOnSameList ==
    (SLALoaded /\ sl.slaData.complianceRate.total > 0
               /\ sl.slaData.complianceRate # ComplianceSentinel
               /\ calls[1].base[1].list = calls[2].base[1].list
               /\ calls[1].base[1].list = calls[3].base[1].list) =>
        /\ sl.slaData.complianceRate.total = Len(sl.slaData.performance)
        /\ sl.slaData.complianceRate.breached = Len(sl.slaData.breaches)

(***************************************************************************)
(* SpecMock: the four synthetic-data generators, one loop iteration (one   *)
(* pushed record) per step, over every stream of the random source.        *)
(***************************************************************************)
Generators == {"getMockIncidents", "getMockResolvedIncidents", "getMockChanges", "getMockSLAData"}

GeneratedList(generator, seed) ==
    CASE generator = "getMockIncidents" -> getMockIncidents(seed)
      [] generator = "getMockResolvedIncidents" -> getMockResolvedIncidents(seed)
      [] generator = "getMockChanges" -> getMockChanges(seed)
      [] generator = "getMockSLAData" -> getMockSLAData(seed)

InitMock ==
    /\ calls = [id \in CallIds |-> IdleCall]
    /\ ov = IdleOverview
    /\ mt = IdleMTTR
    /\ qry = [pc |-> "idle"] /\ tr = [pc |-> "idle"] /\ ct = [pc |-> "idle"]
    /\ tab = [pc |-> "idle"] /\ fn = [pc |-> "idle"] /\ ui = [pc |-> "idle"]
    /\ sl = [pc |-> "idle"]
    /\ gen = [pc |-> "idle"]

\* the generator is entered: const mock... = []
CallGenerator ==
    /\ gen.pc = "idle"
    /\ \E g \in Generators, seed \in RandSeeds :
          gen' = [pc |-> "looping", generator |-> g, seed |-> seed, records |-> <<>>]
    /\ UNCHANGED <<calls, ov, mt, qry, tr, ct, tab, fn, ui, sl>>

\* one iteration of the for loop: the draws of record i, then push
PushRecord ==
    /\ gen.pc = "looping"
    /\ LET all == GeneratedList(gen.generator, gen.seed)
       IN /\ Len(gen.records) < Len(all)
          /\ gen' = [gen EXCEPT !.records = Append(gen.records, all[Len(gen.records) + 1])]
    /\ UNCHANGED <<calls, ov, mt, qry, tr, ct, tab, fn, ui, sl>>

\* the loop condition fails: return mock...
ReturnRecords ==
    /\ gen.pc = "looping"
    /\ Len(gen.records) = Len(GeneratedList(gen.generator, gen.seed))
    /\ gen' = [gen EXCEPT !.pc = "returned"]
    /\ UNCHANGED <<calls, ov, mt, qry, tr, ct, tab, fn, ui, sl>>

NextMock == CallGenerator \/ PushRecord \/ ReturnRecords

SpecMock == InitMock /\ [][NextMock]_vars

\* what it is for a pair to denote one choice
SameString(p) == p.display_value = p.value
SameEntry(labels, values, p) ==
    \E k \in 1..Len(labels) : labels[k] = p.display_value.s /\ values[k] = p.value.s
SameAssignee(labels, p) ==
    \E k \in 1..Len(labels) : labels[k] = p.display_value.s /\ p.value.i = k - 1
SameNumberPair(p) ==
    p.display_value.num * p.value.den = p.value.num * p.display_value.den

ConsistentRecord(generator, r) ==
    CASE generator = "getMockIncidents" ->
            /\ SameString(r.state)
            /\ SameEntry(IncidentCategoryLabels, IncidentCategoryValues, r.category)
            /\ SameAssignee(AssigneeLabels, r.assigned_to)
      [] generator = "getMockResolvedIncidents" ->
            /\ SameString(r.priority)
            /\ SameEntry(ResolvedCategoryLabels, ResolvedCategoryValues, r.category)
      [] generator = "getMockChanges" ->
            /\ SameEntry(ChangeTypeLabels, ChangeTypeValues, r.type)
            /\ SameAssignee(ChangeAssigneeLabels, r.assigned_to)
      [] generator = "getMockSLAData" -> SameNumberPair(r.percentage)

Generating == gen.pc \in {"looping", "returned"}

\* C29: in every synthetic record, for every stream of the random source,
\* each generated {display_value, value} pair (incident state, category,
\* assignee; resolved-incident priority and category; change type and
\* assignee; SLA percentage) denotes one and the same choice.
C29_PairsDenoteOneChoice ==
    Generating =>
        \A n \in 1..Len(gen.records) : ConsistentRecord(gen.generator, gen.records[n])

\* a synthetic incident whose state reads '2' in display_value and '6' in value
C29_Witness ==
    /\ Generating /\ gen.generator = "getMockIncidents"
    /\ \E n \in 1..Len(gen.records) :
          /\ gen.records[n].state.display_value = Str("2")
          /\ gen.records[n].state.value = Str("6")

\* the pairs whose two fields come from one draw are consistent: the incident
\* priority, the change state, the SLA stage and has_breached
SingleDrawPairsConsistent ==
    Generating =>
        \A n \in 1..Len(gen.records) :
            LET r == gen.records[n]
            IN  CASE gen.generator = "getMockIncidents" -> SameString(r.priority)
                  [] gen.generator = "getMockChanges" ->
                        \E k \in 1..Len(ChangeStates) :
                            /\ r.state.display_value = Str(ChangeStates[k].name)
                            /\ r.state.value = Str(ChangeStates[k].value)
                  [] gen.generator = "getMockSLAData" ->
                        /\ (r.has_breached.display_value = Str("true")) = r.has_breached.value.b
                        /\ (r.stage.value = Str("breached")) = r.has_breached.value.b
                  [] OTHER -> TRUE

(***************************************************************************)
(* SpecInsights: generateChangeInsights applied to the change data one     *)
(* load of the Changes tab stores.  allChanges and successfulChanges come  *)
(* from two accessor calls, each with its own request: successfulChanges   *)
(* is getSuccessfulChanges of the same remote list, or of a synthetic list *)
(* when its request failed.  A quotient is the exact rational; a JavaScript*)
(* number is finite, Infinity or NaN.                                      *)
(***************************************************************************)
Finite(num, den) == [kind |-> "finite", num |-> num, den |-> den]
Infinity == [kind |-> "Infinity", num |-> 1, den |-> 0]
NaN == [kind |-> "NaN", num |-> 0, den |-> 0]

\* (a / b) * 100 for non-negative integers a, b
PercentOf(a, b) ==
    IF b # 0 THEN Finite(100 * a, b) ELSE IF a = 0 THEN NaN ELSE Infinity

\* x >= p and x < p for a percentage x and an integer p
AtLeast(x, p) == x.kind = "Infinity" \/ (x.kind = "finite" /\ x.num >= p * x.den)
Below(x, p) == x.kind = "finite" /\ x.num < p * x.den

IsActive(change) == display(change.state) \in {Str("1"), Str("2")}
IsEmergency(change) == display(change.type) = Str("Emergency")

generateChangeInsights(changeData) ==
    LET terminal == Len(SelectSeq(changeData.allChanges, IsCompletedOrClosed))
        successRate == IF Len(changeData.allChanges) > 0
                       THEN PercentOf(Len(changeData.successfulChanges), terminal)
                       ELSE Finite(0, 1)
        activeChanges == Len(SelectSeq(changeData.allChanges, IsActive))
        emergencyChanges == Len(SelectSeq(changeData.allChanges, IsEmergency))
    IN  [ successRate |-> successRate,
          insights |->
              (IF AtLeast(successRate, 95) THEN <<"success">>
               ELSE IF Below(successRate, 80) THEN <<"warning">> ELSE <<>>)
              \o (IF activeChanges > 20 THEN <<"info">> ELSE <<>>)
              \o (IF emergencyChanges > 5 THEN <<"critical">> ELSE <<>>) ]

\* the lists getSuccessfulChanges can resolve with beside allChanges
SuccessfulChangesFor(allChanges) ==
    {getSuccessfulChanges(allChanges)}
    \cup {getSuccessfulChanges(getMockChanges(sd)) : sd \in RandSeeds}

InitInsights ==
    /\ calls = [id \in CallIds |-> IdleCall]
    /\ ov = IdleOverview
    /\ mt = IdleMTTR
    /\ qry = [pc |-> "idle"] /\ tr = [pc |-> "idle"] /\ tab = [pc |-> "idle"]
    /\ fn = [pc |-> "idle"] /\ ui = [pc |-> "idle"]
    /\ sl = [pc |-> "idle"] /\ gen = [pc |-> "idle"]
    /\ \E list \in ChangeTabInputs : \E successful \in SuccessfulChangesFor(list) :
          ct = [pc |-> "loaded", allChanges |-> list, successfulChanges |-> successful]

RenderInsights ==
    /\ ct.pc = "loaded"
    /\ ct' = [ pc |-> "rendered", allChanges |-> ct.allChanges,
               successfulChanges |-> ct.successfulChanges,
               generated |-> generateChangeInsights(ct) ]
    /\ UNCHANGED <<calls, ov, mt, qry, tr, tab, fn, ui, sl, gen>>

NextInsights == RenderInsights

SpecInsights == InitInsights /\ [][NextInsights]_vars

InsightsRendered == ct.pc = "rendered"

\* C30: the success rate generateChangeInsights derives is a finite number
\* between 0 and 100 inclusive, for every change list and every list of
\* successful changes the service can return, also when successful changes
\* exist but no change is classified as terminal.
C30_InsightRateInRange ==
    InsightsRendered =>
        LET x == ct.generated.successRate
        IN  x.kind = "finite" /\ 0 <= x.num /\ x.num <= 100 * x.den

\* one change {display_value: 'Completed', value: '4'}: getSuccessfulChanges
\* returns it, no change is terminal, the rate is 1 / 0 * 100
C30_Witness ==
    /\ InsightsRendered
    /\ Len(ct.allChanges) = 1
    /\ ct.allChanges[1].state = Pair(Str("Completed"), Str("4"))
    /\ Len(ct.successfulChanges) = 1
    /\ ct.generated.successRate = Infinity
    /\ ct.generated.insights = <<"success">>

\* with a terminal change in the list the rate is finite and not negative
InsightRateFiniteWithTerminal ==
    (InsightsRendered /\ Len(SelectSeq(ct.allChanges, IsCompletedOrClosed)) > 0) =>
        ct.generated.successRate.kind = "finite" /\ ct.generated.successRate.num >= 0

====
